---- MODULE Spec2Model ----
(***************************************************************************)
(* State-machine model of LogisticsSimulator (src/simulation.py): the      *)
(* discrete-time replay of a dispatch plan against port throughput, rake   *)
(* budgets and port inventory.                                             *)
(*                                                                         *)
(* Units.  Cargo is in MT and money in currency units, as in the source.   *)
(* Times that the source holds as float days (eta_day, predicted delay,    *)
(* planned berth time, transit_days) are held here in whole hours, so that *)
(* int(days * 24 / time_step_hours) is hours \div time_step_hours and the  *)
(* truncation of the source is kept.  Table values are chosen so that the  *)
(* source's float divisions (capacity / steps_per_day, hours / 24 * rate)  *)
(* are exact.                                                              *)
(***************************************************************************)
EXTENDS Integers, Sequences, FiniteSets, TLC

VARIABLES
  \* constructor and call arguments
  time_step_hours,     \* LogisticsSimulator(time_step_hours=...)
  vessels_df,          \* data['vessels'], rows in table order
  ports_df,            \* data['ports'], rows in table order
  assignments,         \* run_simulation(assignments, ...)
  simulation_days,     \* run_simulation(..., simulation_days)
  \* control
  pc,                  \* position inside run_simulation
  run,                 \* number of run_simulation calls started on this instance
  time_step,           \* loop variable of the main loop
  cursor,              \* position of the rake-assignment loops and the rake being loaded
  \* instance state
  current_time,
  total_time_steps,
  vessel_states,
  port_states,
  plant_states,
  rake_states,
  cost_components,
  rake_trip_count,
  simulation_log,
  \* observation
  results,             \* what each completed run_simulation call returned
  handled_at_reset,    \* per port, total_handled at the last day-boundary reset
  \* the optimizer stages (src/heuristics.py, src/milp_optimizer.py) and the cost
  \* queries (src/utils.py): the locals of one call each, as a record
  annealing,           \* HeuristicOptimizer.run_simulated_annealing
  genetic,             \* HeuristicOptimizer.run_genetic_algorithm
  milp,                \* MILPOptimizer.solve_milp
  pricing,             \* one assignment priced by every stage's cost function
  \* the module state of src/seed_utils.py and of Python's random
  seeding

vars ==
  << time_step_hours, vessels_df, ports_df, assignments, simulation_days,
     pc, run, time_step, cursor, current_time, total_time_steps,
     vessel_states, port_states, plant_states, rake_states, cost_components,
     rake_trip_count, simulation_log, results, handled_at_reset,
     annealing, genetic, milp, pricing, seeding >>

\* the state of the simulator instance
simulator ==
  << time_step_hours, vessels_df, ports_df, assignments, simulation_days,
     pc, run, time_step, cursor, current_time, total_time_steps,
     vessel_states, port_states, plant_states, rake_states, cost_components,
     rake_trip_count, simulation_log, results, handled_at_reset >>

\* the state of the optimizer stages and of the cost queries
optimizers == << annealing, genetic, milp, pricing, seeding >>

\* a stage that has not been called
NotCalled == [ pc |-> "idle" ]

inputs ==
  << time_step_hours, vessels_df, ports_df, assignments, simulation_days >>

----------------------------------------------------------------------------
(* Bounds of the model *)

MaxDays == 3

MaxRuns == 2

----------------------------------------------------------------------------
(* Python values *)

\* None, for an optional step or time
None == -1

\* None, for an optional id
NoId == "none"

Min2(a, b) == IF a <= b THEN a ELSE b

Max2(a, b) == IF a >= b THEN a ELSE b

Min3(a, b, c) == Min2(a, Min2(b, c))

RECURSIVE SumSeq(_)
SumSeq(s) ==
  IF s = << >> THEN 0 ELSE Head(s) + SumSeq(Tail(s))

RECURSIVE SumOver(_, _)
SumOver(f, S) ==
  IF S = {} THEN 0
  ELSE LET x == CHOOSE y \in S : TRUE IN f[x] + SumOver(f, S \ {x})

----------------------------------------------------------------------------
(* Domain tables *)

DEFAULT_RAKE_CAPACITY_MT == 4000

DefaultTransitDays == 2

UnloadReturnSteps == 2

Grades == {"G1", "G2"}

\* plants table: one plant per cargo grade
plants_df ==
  << [plant_id |-> "L1", daily_demand_mt |-> 1000, quality_requirements |-> "G1"],
     [plant_id |-> "L2", daily_demand_mt |-> 500, quality_requirements |-> "G2"] >>

\* rail links table (sparse): transit_h is transit_days * 24
rail_costs_df ==
  << [port_id |-> "P1", plant_id |-> "L1", cost_per_mt |-> 100, transit_h |-> 12],
     [port_id |-> "P2", plant_id |-> "L2", cost_per_mt |-> 200, transit_h |-> 0] >>

PortIds == {"P1", "P2"}

VesselIds == { vessels_df[i].vessel_id : i \in DOMAIN vessels_df }

PlantIds == { plants_df[i].plant_id : i \in DOMAIN plants_df }

\* set_index(...).to_dict('index') lookups
vessel_lookup(vid) ==
  vessels_df[CHOOSE i \in DOMAIN vessels_df : vessels_df[i].vessel_id = vid]

port_lookup(pid) ==
  ports_df[CHOOSE i \in DOMAIN ports_df : ports_df[i].port_id = pid]

PlantFor(grade) ==
  plants_df[CHOOSE i \in DOMAIN plants_df : plants_df[i].quality_requirements = grade].plant_id

\* the values the inputs are drawn from
StepHoursChoices == {12, 24, 48}

CapacityChoices == {0, 8000}

RakeChoices == {0, 1}

EtaChoices == {0, 30}

DelayChoices == {0, 6}

PlannedChoices == {None, 24}

\* int(days * 24 / time_step_hours), the days given in hours
ToStep(hours) == hours \div time_step_hours

steps_per_day == 24 \div time_step_hours

----------------------------------------------------------------------------
(* initialize_simulation *)

\* predicted_delay_map: per vessel the largest predicted delay any assignment names
predicted_delay_map(asgs, vid) ==
  LET named == { asgs[i].predicted_delay_h :
                   i \in { j \in DOMAIN asgs : asgs[j].vessel_id = vid } }
  IN IF named = {} THEN 0
     ELSE Max2(0, CHOOSE d \in named : \A e \in named : e <= d)

InitVesselState(asgs, vessel) ==
  LET delay == predicted_delay_map(asgs, vessel.vessel_id)
  IN [ status |-> "en_route",
       eta_time_step |-> ToStep(vessel.eta_h + delay),
       planned_eta_time_step |-> ToStep(vessel.eta_h),
       berth_time_step |-> None,
       departure_time_step |-> None,
       cargo_remaining |-> vessel.cargo_mt,
       initial_cargo |-> vessel.cargo_mt,
       port_id |-> vessel.port_id,
       assignments |-> << >>,
       planned_berth_time_step |-> None,
       handled_cargo |-> 0,
       demurrage_cost |-> 0,
       predicted_delay_h |-> delay ]

InitPortState(port) ==
  [ vessels_queue |-> << >>,
    current_vessel |-> NoId,
    throughput_remaining |-> port.daily_capacity_mt,
    daily_capacity |-> port.daily_capacity_mt,
    rakes_available_per_day |-> port.rakes_available_per_day,
    rakes_remaining |-> port.rakes_available_per_day,
    total_handled |-> 0,
    total_dispatched |-> 0,
    inventory |-> << >>,
    last_day_index |-> 0,
    discharged_today |-> 0 ]

InitPlantState(plant, days) ==
  [ total_received |-> 0,
    daily_received |-> 0,
    demand_remaining |-> plant.daily_demand_mt * days,
    deliveries |-> << >> ]

\* variant of InitCostComponents that keeps what the instance has accrued
KeptCostComponents ==
  [ demurrage |-> cost_components.demurrage,
    port_handling |-> cost_components.port_handling,
    rail_transport |-> cost_components.rail_transport ]

InitCostComponents ==
  [ demurrage |-> 0, port_handling |-> 0, rail_transport |-> 0 ]

InitRakeTripCount == 0

\* _get_rail_cost: the pair's rate, else the mean rate of the table
_get_rail_cost(port_id, plant_id) ==
  LET rows == { i \in DOMAIN rail_costs_df :
                  /\ rail_costs_df[i].port_id = port_id
                  /\ rail_costs_df[i].plant_id = plant_id }
      all == [ i \in DOMAIN rail_costs_df |-> rail_costs_df[i].cost_per_mt ]
  IN IF rows # {}
     THEN rail_costs_df[CHOOSE i \in rows : \A j \in rows : i <= j].cost_per_mt
     ELSE IF rail_costs_df # << >> THEN SumSeq(all) \div Len(all) ELSE 0

\* _get_transit_time, in time steps
_get_transit_time(port_id, plant_id) ==
  LET rows == { i \in DOMAIN rail_costs_df :
                  /\ rail_costs_df[i].port_id = port_id
                  /\ rail_costs_df[i].plant_id = plant_id }
  IN IF rows # {}
     THEN ToStep(rail_costs_df[CHOOSE i \in rows : \A j \in rows : i <= j].transit_h)
     ELSE ToStep(DefaultTransitDays * 24)

\* one iteration of the loop of _process_assignments, on the vessel states vs
ProcessAssignment(vs, raw) ==
  LET vid == raw.vessel_id
  IN IF vid = NoId \/ vid \notin DOMAIN vs \/ raw.cargo_mt <= 0
     THEN vs
     ELSE
       LET st == vs[vid]
           planned_berth_time_step ==
             IF raw.planned_berth_time # None
             THEN ToStep(raw.planned_berth_time) ELSE None
           assignment_state ==
             [ vessel_id |-> vid,
               port_id |-> raw.port_id,
               plant_id |-> raw.plant_id,
               total_cargo |-> raw.cargo_mt,
               remaining_cargo |-> raw.cargo_mt,
               planned_berth_time_step |-> planned_berth_time_step,
               rail_cost_per_mt |-> _get_rail_cost(raw.port_id, raw.plant_id),
               predicted_delay_h |-> raw.predicted_delay_h ]
           updated_delay == Max2(st.predicted_delay_h, raw.predicted_delay_h)
       IN [ vs EXCEPT ![vid] =
              [ st EXCEPT
                  !.assignments = Append(@, assignment_state),
                  !.predicted_delay_h = updated_delay,
                  !.eta_time_step = ToStep(vessel_lookup(vid).eta_h + updated_delay),
                  !.planned_berth_time_step =
                     IF planned_berth_time_step = None THEN @
                     ELSE IF @ = None THEN planned_berth_time_step
                     ELSE Min2(@, planned_berth_time_step) ] ]

RECURSIVE _process_assignments(_, _, _)
_process_assignments(vs, asgs, i) ==
  IF i > Len(asgs) THEN vs
  ELSE _process_assignments(ProcessAssignment(vs, asgs[i]), asgs, i + 1)

NewRake(port_id, rake_id) ==
  [ rake_id |-> << port_id, rake_id >>,
    status |-> "available",
    home_port |-> port_id,
    current_location |-> port_id,
    cargo_mt |-> 0,
    destination_plant |-> NoId,
    arrival_time_step |-> None,
    assignment_id |-> NoId ]

\* _initialize_rakes: 2 x rakes_available_per_day rakes per port, ids counted across ports
RECURSIVE _initialize_rakes(_, _)
_initialize_rakes(i, acc) ==
  IF i > Len(ports_df) THEN acc
  ELSE LET port == ports_df[i]
           n == port.rakes_available_per_day * 2
           fresh == [ k \in 1..n |-> NewRake(port.port_id, Len(acc) + k - 1) ]
       IN _initialize_rakes(i + 1, acc \o fresh)

InitVesselStates(asgs) ==
  _process_assignments(
    [ vid \in VesselIds |-> InitVesselState(asgs, vessel_lookup(vid)) ], asgs, 1)

InitPortStates ==
  [ pid \in { ports_df[i].port_id : i \in DOMAIN ports_df } |->
      InitPortState(port_lookup(pid)) ]

InitPlantStates(days) ==
  [ lid \in PlantIds |->
      InitPlantState(plants_df[CHOOSE i \in DOMAIN plants_df :
                                 plants_df[i].plant_id = lid], days) ]

----------------------------------------------------------------------------
(* The instance after construction, and the arguments it will be run with *)

\* the two vessels of the vessels table, in table order
VesselsTable(eta1, port2, grade2) ==
  << [ vessel_id |-> "V1", cargo_mt |-> 2000, eta_h |-> eta1, port_id |-> "P1",
       cargo_grade |-> "G1", demurrage_rate |-> 5000 ],
     [ vessel_id |-> "V2", cargo_mt |-> 8000, eta_h |-> 0, port_id |-> port2,
       cargo_grade |-> grade2, demurrage_rate |-> 5000 ] >>

PortsTable(cap1, rakes1) ==
  << [ port_id |-> "P1", handling_cost_per_mt |-> 2, daily_capacity_mt |-> cap1,
       rakes_available_per_day |-> rakes1 ],
     [ port_id |-> "P2", handling_cost_per_mt |-> 3, daily_capacity_mt |-> 8000,
       rakes_available_per_day |-> 1 ] >>

\* a plan with one assignment per vessel, each for the vessel's whole cargo
Plan(vessels, delay1, planned1) ==
  << [ vessel_id |-> "V1", port_id |-> vessels[1].port_id,
       plant_id |-> PlantFor(vessels[1].cargo_grade), cargo_mt |-> vessels[1].cargo_mt,
       planned_berth_time |-> planned1, predicted_delay_h |-> delay1 ],
     [ vessel_id |-> "V2", port_id |-> vessels[2].port_id,
       plant_id |-> PlantFor(vessels[2].cargo_grade), cargo_mt |-> vessels[2].cargo_mt,
       planned_berth_time |-> None, predicted_delay_h |-> 0 ] >>

\* the rake-assignment loops at their start, no rake being loaded
NoCursor == [ vi |-> 1, ai |-> 1, rake |-> 0, load |-> 0 ]

Init ==
  /\ time_step_hours \in StepHoursChoices
  /\ simulation_days \in (MaxDays - 1)..MaxDays
  /\ \E cap1 \in CapacityChoices, rakes1 \in RakeChoices :
       ports_df = PortsTable(cap1, rakes1)
  /\ \E eta1 \in EtaChoices, port2 \in PortIds, grade2 \in Grades :
       vessels_df = VesselsTable(eta1, port2, grade2)
  /\ \E delay1 \in DelayChoices, planned1 \in PlannedChoices :
       assignments = Plan(vessels_df, delay1, planned1)
  /\ pc = "idle"
  /\ run = 0
  /\ time_step = 0
  /\ cursor = NoCursor
  /\ current_time = 0
  /\ total_time_steps = 0
  /\ vessel_states = << >>
  /\ port_states = << >>
  /\ plant_states = << >>
  /\ rake_states = << >>
  /\ cost_components =
       [ demurrage |-> 0, port_handling |-> 0, rail_transport |-> 0,
         storage |-> 0, ocean_freight |-> 0, rerouting_penalty |-> 0 ]
  /\ rake_trip_count = 0
  /\ simulation_log = << >>
  /\ results = << >>
  /\ handled_at_reset = << >>
  /\ annealing = NotCalled
  /\ genetic = NotCalled
  /\ milp = NotCalled
  /\ pricing = NotCalled
  /\ seeding = NotCalled

----------------------------------------------------------------------------
(* run_simulation: the call, and the head of the main loop *)

\* the call of run_simulation: initialize_simulation, then the loop is entered
RunSimulation ==
  /\ pc \in {"idle", "done"}
  /\ run < MaxRuns
  /\ run' = run + 1
  /\ total_time_steps' = (simulation_days * 24) \div time_step_hours
  /\ cost_components' = InitCostComponents
  /\ rake_trip_count' = InitRakeTripCount
  /\ vessel_states' = InitVesselStates(assignments)
  /\ port_states' = InitPortStates
  /\ plant_states' = InitPlantStates(simulation_days)
  /\ rake_states' = _initialize_rakes(1, << >>)
  /\ handled_at_reset' = [ pid \in DOMAIN port_states' |-> 0 ]
  /\ time_step' = 0
  /\ cursor' = NoCursor
  /\ pc' = IF total_time_steps' > 0 THEN "step_start" ELSE "kpis"
  /\ UNCHANGED << inputs, optimizers, current_time, simulation_log, results >>

\* variant of NextPhase that runs the rake operations before the berth operations
NextPhaseRakesFirst(phase) ==
  CASE phase = "step_start" -> "arrivals"
    [] phase = "arrivals" -> "rake_assign"
    [] phase = "rake_assign" -> "rake_update"
    [] phase = "rake_update" -> "berth"
    [] phase = "berth" -> "log"

\* the order of the sub-steps inside one pass of the main loop
NextPhase(phase) ==
  CASE phase = "step_start" -> "arrivals"
    [] phase = "arrivals" -> "berth"
    [] phase = "berth" -> "rake_assign"
    [] phase = "rake_assign" -> "rake_update"
    [] phase = "rake_update" -> "log"

\* int(current_day) of the step
DayIndex(t) == (t * time_step_hours) \div 24

\* _reset_daily_limits and _age_port_inventories, on one port state
ResetPort(ps, day_index) ==
  [ ps EXCEPT
      !.throughput_remaining = ps.daily_capacity,
      !.rakes_remaining = ps.rakes_available_per_day,
      !.last_day_index = day_index,
      !.inventory = [ i \in DOMAIN @ |-> [ @[i] EXCEPT !.age_days = @ + 1 ] ] ]

\* time_step % steps_per_day with steps_per_day = 0 (a step longer than a day):
\* ZeroDivisionError leaves run_simulation
StepCrash ==
  /\ pc = "step_start"
  /\ steps_per_day = 0
  /\ current_time' = time_step
  /\ pc' = "crashed"
  /\ UNCHANGED << inputs, optimizers, run, time_step, cursor, total_time_steps, vessel_states,
                  port_states, plant_states, rake_states, cost_components,
                  rake_trip_count, simulation_log, results, handled_at_reset >>

\* a step that starts a day: budgets reset, inventory aged, plant receipts reset
DayBoundaryReset ==
  /\ pc = "step_start"
  /\ steps_per_day # 0
  /\ time_step % steps_per_day = 0
  /\ current_time' = time_step
  /\ port_states' =
       [ pid \in DOMAIN port_states |-> ResetPort(port_states[pid], DayIndex(time_step)) ]
  /\ plant_states' =
       [ lid \in DOMAIN plant_states |-> [ plant_states[lid] EXCEPT !.daily_received = 0 ] ]
  /\ handled_at_reset' =
       [ pid \in DOMAIN port_states |-> port_states[pid].total_handled ]
  /\ pc' = NextPhase("step_start")
  /\ UNCHANGED << inputs, optimizers, run, time_step, cursor, total_time_steps, vessel_states,
                  rake_states, cost_components, rake_trip_count, simulation_log, results >>

\* a step inside a day
NoReset ==
  /\ pc = "step_start"
  /\ steps_per_day # 0
  /\ time_step % steps_per_day # 0
  /\ current_time' = time_step
  /\ pc' = NextPhase("step_start")
  /\ UNCHANGED << inputs, optimizers, run, time_step, cursor, total_time_steps, vessel_states,
                  port_states, plant_states, rake_states, cost_components,
                  rake_trip_count, simulation_log, results, handled_at_reset >>

----------------------------------------------------------------------------
(* _process_vessel_arrivals *)

VesselOrder == [ i \in DOMAIN vessels_df |-> vessels_df[i].vessel_id ]

PortOrder == [ i \in DOMAIN ports_df |-> ports_df[i].port_id ]

\* one iteration of the loop over vessel_states; s holds vs, ps and log
ArriveVessel(s, vid, t) ==
  LET state == s.vs[vid]
  IN IF state.status = "en_route" /\ state.eta_time_step <= t
     THEN [ s EXCEPT
              !.ps[state.port_id].vessels_queue = Append(@, vid),
              !.vs[vid].status = "waiting",
              !.log = Append(@, [ time_step |-> t, event |-> "vessel_arrival",
                                  vessel_id |-> vid, port_id |-> state.port_id ]) ]
     ELSE s

RECURSIVE _process_vessel_arrivals(_, _, _)
_process_vessel_arrivals(s, i, t) ==
  IF i > Len(VesselOrder) THEN s
  ELSE _process_vessel_arrivals(ArriveVessel(s, VesselOrder[i], t), i + 1, t)

ProcessVesselArrivals ==
  /\ pc = "arrivals"
  /\ LET s == _process_vessel_arrivals(
                [ vs |-> vessel_states, ps |-> port_states, log |-> simulation_log ],
                1, time_step)
     IN /\ vessel_states' = s.vs
        /\ port_states' = s.ps
        /\ simulation_log' = s.log
  /\ pc' = NextPhase("arrivals")
  /\ UNCHANGED << inputs, optimizers, run, time_step, cursor, current_time, total_time_steps,
                  plant_states, rake_states, cost_components, rake_trip_count,
                  results, handled_at_reset >>

----------------------------------------------------------------------------
(* _process_berth_operations *)

\* per_step_factors: the per-step share of the daily throughput
per_step_factor(ps) ==
  IF steps_per_day # 0 THEN ps.daily_capacity \div steps_per_day ELSE ps.daily_capacity

\* variant of discharge_mt that discharges only while the port has rakes left today
discharge_mt_needs_rakes(vessel_state, ps) ==
  IF ps.rakes_remaining > 0
  THEN Min3(vessel_state.cargo_remaining, per_step_factor(ps), ps.throughput_remaining)
  ELSE 0

\* variant of discharge_mt that forgets the port's throughput
discharge_mt_uncapped(vessel_state, ps) ==
  vessel_state.cargo_remaining

\* the cargo the berthed vessel discharges in one step
discharge_mt(vessel_state, ps) ==
  Min3(vessel_state.cargo_remaining, per_step_factor(ps), ps.throughput_remaining)

\* _push_port_inventory: the batch appended for a discharge
NewBatch(vid, cargo_mt) ==
  [ vessel_id |-> vid, cargo_mt |-> cargo_mt, remaining_mt |-> cargo_mt,
    grade |-> vessel_lookup(vid).cargo_grade, age_days |-> 0 ]

\* variant of Discharge that counts the port's whole per-step share as handled
DischargeCountsShare(s, pid, vid, d) ==
  [ s EXCEPT
      !.vs[vid].cargo_remaining = @ - d,
      !.ps[pid].throughput_remaining = Max2(0, @ - d),
      !.ps[pid].total_handled = @ + per_step_factor(s.ps[pid]),
      !.ps[pid].inventory = Append(@, NewBatch(vid, d)),
      !.ps[pid].discharged_today = @ + d,
      !.cc.port_handling = @ + d * port_lookup(pid).handling_cost_per_mt ]

\* the bookkeeping of a discharge of d MT from vessel vid at port pid
Discharge(s, pid, vid, d) ==
  [ s EXCEPT
      !.vs[vid].cargo_remaining = @ - d,
      !.ps[pid].throughput_remaining = Max2(0, @ - d),
      !.ps[pid].total_handled = @ + d,
      !.ps[pid].inventory = Append(@, NewBatch(vid, d)),
      !.ps[pid].discharged_today = @ + d,
      !.cc.port_handling = @ + d * port_lookup(pid).handling_cost_per_mt ]

\* the discharge of the port's current vessel, and its departure when it is empty;
\* s holds vs, ps, cc and log
DischargeCurrent(s, pid, t) ==
  LET vid == s.ps[pid].current_vessel
      d == discharge_mt(s.vs[vid], s.ps[pid])
      s1 == IF d > 0 THEN Discharge(s, pid, vid, d) ELSE s
  IN IF s.ps[pid].current_vessel = NoId THEN s
     ELSE IF s1.vs[vid].cargo_remaining <= 0
     THEN [ s1 EXCEPT
              !.vs[vid].status = "departed",
              !.vs[vid].departure_time_step = t,
              !.ps[pid].current_vessel = NoId,
              !.log = Append(@, [ time_step |-> t, event |-> "vessel_departure",
                                  vessel_id |-> vid, port_id |-> pid,
                                  cargo_handled |-> s1.vs[vid].initial_cargo ]) ]
     ELSE s1

\* the step a vessel is planned to berth at: its earliest planned berth step, else
\* the step of its ETA
planned_step(vessel_state) ==
  IF vessel_state.planned_berth_time_step # None
  THEN vessel_state.planned_berth_time_step
  ELSE vessel_state.planned_eta_time_step

\* variant of demurrage_cost that takes a step for a day
demurrage_cost_per_step(vessel_state, vid, t) ==
  Max2(0, t - planned_step(vessel_state)) * vessel_lookup(vid).demurrage_rate

\* demurrage of a vessel berthing at step t
demurrage_cost(vessel_state, vid, t) ==
  LET delay_steps == Max2(0, t - planned_step(vessel_state))
      delay_hours == delay_steps * time_step_hours
  IN (delay_hours * vessel_lookup(vid).demurrage_rate) \div 24

\* variant of may_berth that does not wait for the planned step
may_berth_on_arrival(vessel_state, t) ==
  t >= 0

\* whether the head of the queue may berth at step t
may_berth(vessel_state, t) ==
  t >= planned_step(vessel_state)

\* the head of the queue is berthed when the berth is free and its time has come
BerthNext(s, pid, t) ==
  LET queue == s.ps[pid].vessels_queue
      next_vessel_id == Head(queue)
      vessel_state == s.vs[next_vessel_id]
  IN IF s.ps[pid].current_vessel # NoId \/ queue = << >> THEN s
     ELSE IF may_berth(vessel_state, t)
     THEN [ s EXCEPT
              !.ps[pid].vessels_queue = Tail(queue),
              !.ps[pid].current_vessel = next_vessel_id,
              !.vs[next_vessel_id].status = "berthed",
              !.vs[next_vessel_id].berth_time_step = t,
              !.vs[next_vessel_id].demurrage_cost =
                 demurrage_cost(vessel_state, next_vessel_id, t),
              !.cc.demurrage = @ + demurrage_cost(vessel_state, next_vessel_id, t),
              !.log = Append(@, [ time_step |-> t, event |-> "vessel_berth",
                                  vessel_id |-> next_vessel_id, port_id |-> pid ]) ]
     ELSE s

RECURSIVE _process_berth_operations(_, _, _)
_process_berth_operations(s, i, t) ==
  IF i > Len(PortOrder) THEN s
  ELSE _process_berth_operations(
         BerthNext(DischargeCurrent(s, PortOrder[i], t), PortOrder[i], t), i + 1, t)

ProcessBerthOperations ==
  /\ pc = "berth"
  /\ LET s == _process_berth_operations(
                [ vs |-> vessel_states, ps |-> port_states,
                  cc |-> cost_components, log |-> simulation_log ],
                1, time_step)
     IN /\ vessel_states' = s.vs
        /\ port_states' = s.ps
        /\ cost_components' = s.cc
        /\ simulation_log' = s.log
  /\ pc' = NextPhase("berth")
  /\ UNCHANGED << inputs, optimizers, run, time_step, cursor, current_time, total_time_steps,
                  plant_states, rake_states, rake_trip_count, results,
                  handled_at_reset >>

----------------------------------------------------------------------------
(* _process_rake_operations, first loop: rake assignment *)

\* _get_port_inventory_remaining
_get_port_inventory_remaining(ps, grade) ==
  SumSeq([ i \in DOMAIN ps.inventory |->
             IF ps.inventory[i].grade # grade THEN 0 ELSE ps.inventory[i].remaining_mt ])

\* variant of ConsumeBatches that draws batches down whatever their grade
RECURSIVE ConsumeAnyGrade(_, _, _, _)
ConsumeAnyGrade(inventory, i, remaining, grade) ==
  IF i > Len(inventory) \/ remaining <= 0 THEN inventory
  ELSE LET batch == inventory[i]
           take == Min2(batch.remaining_mt, remaining)
       IN ConsumeAnyGrade([ inventory EXCEPT ![i].remaining_mt = @ - take ],
                          i + 1, remaining - take, grade)

\* the loop of _consume_port_inventory from batch i on: batches of the grade are
\* drawn down first in, first out, until required_mt is taken
RECURSIVE ConsumeBatches(_, _, _, _)
ConsumeBatches(inventory, i, remaining, grade) ==
  IF i > Len(inventory) \/ remaining <= 0 THEN inventory
  ELSE LET batch == inventory[i]
       IN IF batch.grade # grade \/ batch.remaining_mt <= 0
          THEN ConsumeBatches(inventory, i + 1, remaining, grade)
          ELSE LET take == Min2(batch.remaining_mt, remaining)
               IN ConsumeBatches(
                    [ inventory EXCEPT ![i].remaining_mt = @ - take ],
                    i + 1, remaining - take, grade)

\* the batches kept: those not emptied
RECURSIVE KeepNonEmpty(_)
KeepNonEmpty(inventory) ==
  IF inventory = << >> THEN << >>
  ELSE IF Head(inventory).remaining_mt > 0
  THEN << Head(inventory) >> \o KeepNonEmpty(Tail(inventory))
  ELSE KeepNonEmpty(Tail(inventory))

\* _consume_port_inventory: the port state after the draw
_consume_port_inventory(ps, required_mt, grade) ==
  IF required_mt <= 0 THEN ps
  ELSE [ ps EXCEPT
           !.inventory = KeepNonEmpty(ConsumeBatches(ps.inventory, 1, required_mt, grade)) ]

\* ... and the cargo it returns
consumed_mt(ps, required_mt, grade) ==
  _get_port_inventory_remaining(ps, grade)
    - _get_port_inventory_remaining(_consume_port_inventory(ps, required_mt, grade), grade)

\* variant of available_rakes that takes an available rake wherever it is
available_rakes_anywhere(port_id) ==
  { i \in DOMAIN rake_states : rake_states[i].status = "available" }

\* available_rakes of _assign_rakes_to_vessel, as indexes into rake_states
available_rakes(port_id) ==
  { i \in DOMAIN rake_states :
      /\ rake_states[i].status = "available"
      /\ rake_states[i].current_location = port_id }

\* variant of desired_load that forgets the assignment's remaining cargo
desired_load_unbounded(assignment, inventory_available) ==
  Min2(DEFAULT_RAKE_CAPACITY_MT, inventory_available)

\* the load a rake is asked to take for an assignment
desired_load(assignment, inventory_available) ==
  Min3(DEFAULT_RAKE_CAPACITY_MT, assignment.remaining_cargo, inventory_available)

\* the guards of the vessel loop: which vessels rake assignment is attempted for
vessel_guard(vid) ==
  LET vessel_state == vessel_states[vid]
      port_id == vessel_state.port_id
  IN /\ vessel_state.assignments # << >>
     /\ port_id \in DOMAIN port_states
     /\ port_states[port_id].rakes_remaining > 0
     /\ _get_port_inventory_remaining(port_states[port_id],
                                      vessel_lookup(vid).cargo_grade) > 0

\* the guards of the assignment loop and of the while loop of _assign_rakes_to_vessel
dispatch_guard(vid, ai) ==
  LET vessel_state == vessel_states[vid]
      port_id == vessel_state.port_id
      assignment == vessel_state.assignments[ai]
  IN /\ assignment.vessel_id = vid
     /\ assignment.remaining_cargo > 0
     /\ available_rakes(port_id) # {}
     /\ port_states[port_id].rakes_remaining > 0
     /\ _get_port_inventory_remaining(port_states[port_id],
                                      vessel_lookup(vid).cargo_grade) > 0

\* the loop positions at or after the cursor where a rake is dispatched
Dispatches(c) ==
  { pos \in (c.vi..Len(VesselOrder)) \X (1..Len(assignments)) :
      /\ pos[2] <= Len(vessel_states[VesselOrder[pos[1]]].assignments)
      /\ pos[1] > c.vi \/ pos[2] >= c.ai
      /\ vessel_guard(VesselOrder[pos[1]])
      /\ dispatch_guard(VesselOrder[pos[1]], pos[2]) }

\* the first of them in loop order
NextDispatch(c) ==
  CHOOSE pos \in Dispatches(c) :
    \A q \in Dispatches(c) : pos[1] < q[1] \/ (pos[1] = q[1] /\ pos[2] <= q[2])

\* one pass of the while loop up to the rake being put to loading
RakeLoading ==
  /\ pc = "rake_assign"
  /\ Dispatches(cursor) # {}
  /\ LET pos == NextDispatch(cursor)
         vid == VesselOrder[pos[1]]
         port_id == vessel_states[vid].port_id
         assignment == vessel_states[vid].assignments[pos[2]]
         cargo_grade == vessel_lookup(vid).cargo_grade
         ps == port_states[port_id]
         wanted == desired_load(assignment, _get_port_inventory_remaining(ps, cargo_grade))
         cargo_to_load == consumed_mt(ps, wanted, cargo_grade)
         rake == CHOOSE i \in available_rakes(port_id) :
                   \A j \in available_rakes(port_id) : i <= j
     IN /\ port_states' =
             [ port_states EXCEPT ![port_id] =
                 [ _consume_port_inventory(ps, wanted, cargo_grade) EXCEPT
                     !.rakes_remaining = Max2(0, @ - 1),
                     !.total_dispatched = @ + cargo_to_load ] ]
        /\ rake_states' =
             [ rake_states EXCEPT ![rake] =
                 [ @ EXCEPT !.status = "loading",
                            !.cargo_mt = cargo_to_load,
                            !.destination_plant = assignment.plant_id,
                            !.assignment_id = << vid, assignment.plant_id >>,
                            !.current_location = port_id ] ]
        /\ cursor' = [ vi |-> pos[1], ai |-> pos[2], rake |-> rake, load |-> cargo_to_load ]
  /\ pc' = "rake_loading"
  /\ UNCHANGED << inputs, optimizers, run, time_step, current_time, total_time_steps, vessel_states,
                  plant_states, cost_components, rake_trip_count, simulation_log,
                  results, handled_at_reset >>

\* the rest of the pass: the rake leaves, the assignment and the costs are updated
RakeDeparture ==
  /\ pc = "rake_loading"
  /\ LET vid == VesselOrder[cursor.vi]
         port_id == vessel_states[vid].port_id
         assignment == vessel_states[vid].assignments[cursor.ai]
         cargo_to_load == cursor.load
     IN /\ rake_states' =
             [ rake_states EXCEPT ![cursor.rake] =
                 [ @ EXCEPT
                     !.arrival_time_step =
                        time_step + 1 + _get_transit_time(port_id, assignment.plant_id),
                     !.status = "in_transit",
                     !.current_location = "en_route" ] ]
        /\ vessel_states' =
             [ vessel_states EXCEPT
                 ![vid].handled_cargo = @ + cargo_to_load,
                 ![vid].assignments[cursor.ai].remaining_cargo = Max2(0, @ - cargo_to_load) ]
        /\ cost_components' =
             [ cost_components EXCEPT
                 !.rail_transport = @ + cargo_to_load * assignment.rail_cost_per_mt ]
        /\ simulation_log' =
             Append(simulation_log,
                    [ time_step |-> time_step, event |-> "rake_dispatch",
                      rake_id |-> rake_states[cursor.rake].rake_id, vessel_id |-> vid,
                      plant_id |-> assignment.plant_id, cargo_mt |-> cargo_to_load,
                      grade |-> vessel_lookup(vid).cargo_grade, source_port |-> port_id ])
  /\ cursor' = [ cursor EXCEPT !.rake = 0, !.load = 0 ]
  /\ pc' = "rake_assign"
  /\ UNCHANGED << inputs, optimizers, run, time_step, current_time, total_time_steps, port_states,
                  plant_states, rake_trip_count, results, handled_at_reset >>

\* the loops over vessels and assignments are exhausted
RakeAssignmentDone ==
  /\ pc = "rake_assign"
  /\ Dispatches(cursor) = {}
  /\ cursor' = NoCursor
  /\ pc' = NextPhase("rake_assign")
  /\ UNCHANGED << inputs, optimizers, run, time_step, current_time, total_time_steps, vessel_states,
                  port_states, plant_states, rake_states, cost_components,
                  rake_trip_count, simulation_log, results, handled_at_reset >>

----------------------------------------------------------------------------
(* _process_rake_operations, second loop: rake advance and delivery *)

\* a rake that reached its plant: it unloads, and is due back after the unloading
ArrivedRake(rake_state, t) ==
  [ rake_state EXCEPT
      !.status = "unloading",
      !.current_location = rake_state.destination_plant,
      !.arrival_time_step = t + UnloadReturnSteps ]

\* variant of ResetRake that leaves the rake at the plant
ResetRakeAtPlant(rake_state) ==
  [ rake_state EXCEPT
      !.status = "available",
      !.cargo_mt = 0,
      !.destination_plant = NoId,
      !.arrival_time_step = None ]

\* a rake that has delivered: back at its home port, empty
ResetRake(rake_state) ==
  [ rake_state EXCEPT
      !.status = "available",
      !.current_location = rake_state.home_port,
      !.cargo_mt = 0,
      !.destination_plant = NoId,
      !.arrival_time_step = None ]

\* one iteration of the loop over rake_states; s holds rs, pls, trips and log
UpdateRake(s, i, t) ==
  LET rake_state == s.rs[i]
      due == rake_state.arrival_time_step # None /\ rake_state.arrival_time_step # 0
             /\ t >= rake_state.arrival_time_step
      plant_id == rake_state.destination_plant
      cargo_delivered == rake_state.cargo_mt
      delivered ==
        IF plant_id \in DOMAIN s.pls
        THEN [ s.pls EXCEPT
                 ![plant_id].total_received = @ + cargo_delivered,
                 ![plant_id].demand_remaining = Max2(0, @ - cargo_delivered),
                 ![plant_id].deliveries =
                    Append(@, [ time_step |-> t, cargo_mt |-> cargo_delivered,
                                rake_id |-> rake_state.rake_id ]),
                 ![plant_id].daily_received = @ + cargo_delivered ]
        ELSE s.pls
  IN IF rake_state.status = "in_transit" /\ due
     THEN [ s EXCEPT !.rs[i] = ArrivedRake(rake_state, t) ]
     ELSE IF rake_state.status = "unloading" /\ due
     THEN [ s EXCEPT
              !.pls = delivered,
              !.trips = @ + 1,
              !.rs[i] = ResetRake(rake_state),
              !.log = Append(@, [ time_step |-> t, event |-> "cargo_delivery",
                                  rake_id |-> rake_state.rake_id, plant_id |-> plant_id,
                                  cargo_mt |-> cargo_delivered ]) ]
     ELSE s

RECURSIVE UpdateRakes(_, _, _)
UpdateRakes(s, i, t) ==
  IF i > Len(s.rs) THEN s
  ELSE UpdateRakes(UpdateRake(s, i, t), i + 1, t)

ProcessRakeUpdates ==
  /\ pc = "rake_update"
  /\ LET s == UpdateRakes(
                [ rs |-> rake_states, pls |-> plant_states,
                  trips |-> rake_trip_count, log |-> simulation_log ],
                1, time_step)
     IN /\ rake_states' = s.rs
        /\ plant_states' = s.pls
        /\ rake_trip_count' = s.trips
        /\ simulation_log' = s.log
  /\ pc' = NextPhase("rake_update")
  /\ UNCHANGED << inputs, optimizers, run, time_step, cursor, current_time, total_time_steps,
                  vessel_states, port_states, cost_components, results,
                  handled_at_reset >>

----------------------------------------------------------------------------
(* the end of a step, and the end of the run *)

\* the position after the last sub-step of step t
AfterStep(t) ==
  IF t + 1 < total_time_steps THEN "step_start" ELSE "kpis"

\* _log_daily_state, on the steps that start a day
LogDailyState ==
  /\ pc = "log"
  /\ time_step % steps_per_day = 0
  /\ simulation_log' =
       Append(simulation_log,
              [ time_step |-> current_time, event |-> "daily_summary",
                day |-> DayIndex(time_step),
                vessels_waiting |->
                  SumOver([ pid \in DOMAIN port_states |->
                              Len(port_states[pid].vessels_queue) ], DOMAIN port_states),
                total_cargo_delivered |->
                  SumOver([ lid \in DOMAIN plant_states |->
                              plant_states[lid].total_received ], DOMAIN plant_states) ])
  /\ plant_states' =
       [ lid \in DOMAIN plant_states |-> [ plant_states[lid] EXCEPT !.daily_received = 0 ] ]
  /\ time_step' = time_step + 1
  /\ pc' = AfterStep(time_step)
  /\ UNCHANGED << inputs, optimizers, run, cursor, current_time, total_time_steps, vessel_states,
                  port_states, rake_states, cost_components, rake_trip_count,
                  results, handled_at_reset >>

NoDailyLog ==
  /\ pc = "log"
  /\ time_step % steps_per_day # 0
  /\ time_step' = time_step + 1
  /\ pc' = AfterStep(time_step)
  /\ UNCHANGED << inputs, optimizers, run, cursor, current_time, total_time_steps, vessel_states,
                  port_states, plant_states, rake_states, cost_components,
                  rake_trip_count, simulation_log, results, handled_at_reset >>

\* _calculate_final_kpis; a ratio is held as << numerator, denominator >>
_calculate_final_kpis ==
  LET total_demurrage == cost_components.demurrage
      total_port_handling == cost_components.port_handling
      total_rail_transport == cost_components.rail_transport
      total_demand ==
        SumSeq([ i \in DOMAIN plants_df |-> plants_df[i].daily_demand_mt * simulation_days ])
      total_delivered ==
        SumOver([ lid \in DOMAIN plant_states |-> plant_states[lid].total_received ],
                DOMAIN plant_states)
      departed_vessels ==
        Cardinality({ vid \in DOMAIN vessel_states : vessel_states[vid].status = "departed" })
      total_vessels == Cardinality(DOMAIN vessel_states)
      wait_steps ==
        [ vid \in DOMAIN vessel_states |->
            IF vessel_states[vid].berth_time_step # None
            THEN Max2(0, vessel_states[vid].berth_time_step
                           - vessel_states[vid].planned_eta_time_step)
            ELSE 0 ]
      vessels_with_wait == { vid \in DOMAIN vessel_states : wait_steps[vid] > 0 }
      total_wait_time_hours ==
        SumOver([ vid \in DOMAIN vessel_states |-> wait_steps[vid] * time_step_hours ],
                vessels_with_wait)
      total_rakes == Len(rake_states)
      theoretical_capacity ==
        SumSeq([ i \in DOMAIN ports_df |-> ports_df[i].rakes_available_per_day ])
          * simulation_days
  IN [ demurrage_cost |-> total_demurrage,
       port_handling_cost |-> total_port_handling,
       rail_transport_cost |-> total_rail_transport,
       total_cost |-> total_demurrage + total_port_handling + total_rail_transport,
       demand_fulfillment_pct |->
         IF total_demand > 0 THEN << total_delivered * 100, total_demand >> ELSE << 0, 1 >>,
       total_cargo_delivered |-> total_delivered,
       total_demand |-> total_demand,
       vessels_processed_pct |->
         IF total_vessels > 0 THEN << departed_vessels * 100, total_vessels >> ELSE << 0, 1 >>,
       avg_vessel_wait_hours |->
         IF vessels_with_wait # {}
         THEN << total_wait_time_hours, Cardinality(vessels_with_wait) >> ELSE << 0, 1 >>,
       avg_rake_utilization |->
         IF theoretical_capacity > 0 THEN << rake_trip_count, theoretical_capacity >>
         ELSE IF total_rakes > 0 THEN << rake_trip_count, total_rakes >>
         ELSE << 0, 1 >> ]

\* the return of run_simulation
ReturnResults ==
  /\ pc = "kpis"
  /\ results' = Append(results, [ kpis |-> _calculate_final_kpis,
                                  simulation_log |-> simulation_log,
                                  steps |-> time_step,
                                  simulation_days |-> simulation_days ])
  /\ pc' = "done"
  /\ UNCHANGED << inputs, optimizers, run, time_step, cursor, current_time, total_time_steps,
                  vessel_states, port_states, plant_states, rake_states,
                  cost_components, rake_trip_count, simulation_log, handled_at_reset >>

Next ==
  \/ RunSimulation
  \/ StepCrash
  \/ DayBoundaryReset
  \/ NoReset
  \/ ProcessVesselArrivals
  \/ ProcessBerthOperations
  \/ RakeLoading
  \/ RakeDeparture
  \/ RakeAssignmentDone
  \/ ProcessRakeUpdates
  \/ LogDailyState
  \/ NoDailyLog
  \/ ReturnResults

Spec == Init /\ [][Next]_vars

----------------------------------------------------------------------------
(* Quantities the properties are stated over *)

TotalHandled ==
  SumOver([ pid \in DOMAIN port_states |-> port_states[pid].total_handled ],
          DOMAIN port_states)

TotalDischarged ==
  SumOver([ vid \in DOMAIN vessel_states |->
              vessel_states[vid].initial_cargo - vessel_states[vid].cargo_remaining ],
          DOMAIN vessel_states)

TotalReceived ==
  SumOver([ lid \in DOMAIN plant_states |-> plant_states[lid].total_received ],
          DOMAIN plant_states)

TotalAssigned ==
  SumSeq([ i \in DOMAIN assignments |-> assignments[i].cargo_mt ])

\* the cargo_mt of the assignments passed for one vessel
AssignedTo(vid) ==
  SumSeq([ i \in DOMAIN assignments |->
             IF assignments[i].vessel_id = vid THEN assignments[i].cargo_mt ELSE 0 ])

\* the cargo on rakes that have been loaded and have not delivered yet
OnRakes ==
  SumSeq([ i \in DOMAIN rake_states |->
             IF rake_states[i].status \in {"loading", "in_transit", "unloading"}
             THEN rake_states[i].cargo_mt ELSE 0 ])

Berthed(vid) == vessel_states[vid].status \in {"berthed", "departed"}

----------------------------------------------------------------------------
(* C1 *)

\* C1: discharge conservation. In every state of a run, the sum over ports of
\* total_handled equals the sum over vessels of initial_cargo - cargo_remaining.
\* It holds in every state, so no step changes one side without the other.
C1_DischargeConservation ==
  TotalHandled = TotalDischarged

\* a run in which one vessel has departed and another is part-way through its discharge
C1_Witness ==
  /\ \E vid \in DOMAIN vessel_states :
       /\ vessel_states[vid].cargo_remaining > 0
       /\ vessel_states[vid].cargo_remaining < vessel_states[vid].initial_cargo
  /\ \E vid \in DOMAIN vessel_states : vessel_states[vid].status = "departed"
  /\ TotalHandled > 0

----------------------------------------------------------------------------
(* C2 *)

\* C2: delivery bound. In every state the sum over plants of total_received is at most
\* the sum of cargo_mt over the assignments passed to run_simulation: the cargo loaded
\* on rakes for a vessel's assignments never exceeds their cargo_mt, and what the
\* plants have received plus what is on rakes is exactly what was loaded.
C2_DeliveryBound ==
  /\ TotalReceived <= TotalAssigned
  /\ \A vid \in DOMAIN vessel_states :
       vessel_states[vid].handled_cargo <= AssignedTo(vid)
  /\ TotalReceived + OnRakes =
       SumOver([ pid \in DOMAIN port_states |-> port_states[pid].total_dispatched ],
               DOMAIN port_states)

\* a plant has received cargo while more cargo is still on a rake
C2_Witness ==
  /\ TotalReceived > 0
  /\ OnRakes > 0
  /\ \E vid \in DOMAIN vessel_states :
       vessel_states[vid].handled_cargo = AssignedTo(vid)

----------------------------------------------------------------------------
(* C3 *)

\* C3: port daily throughput cap. For every port, the cargo discharged since the last
\* day-boundary reset is at most daily_capacity_mt and throughput_remaining is never
\* negative; a port with daily_capacity_mt = 0 has total_handled = 0 throughout and no
\* vessel of that port is ever departed.
C3_ThroughputCap ==
  \A pid \in DOMAIN port_states :
    /\ port_states[pid].throughput_remaining >= 0
    /\ port_states[pid].total_handled - handled_at_reset[pid]
         <= port_lookup(pid).daily_capacity_mt
    /\ port_lookup(pid).daily_capacity_mt = 0 =>
         /\ port_states[pid].total_handled = 0
         /\ \A vid \in DOMAIN vessel_states :
              vessel_states[vid].port_id = pid => vessel_states[vid].status # "departed"

\* a zero-capacity port holding a berthed vessel late in the run, while another port
\* has used its whole daily budget
C3_Witness ==
  /\ pc = "kpis"
  /\ \E pid \in DOMAIN port_states :
       /\ port_lookup(pid).daily_capacity_mt = 0
       /\ port_states[pid].current_vessel # NoId
       /\ vessel_states[port_states[pid].current_vessel].berth_time_step = 0
  /\ \E pid \in DOMAIN port_states :
       /\ port_lookup(pid).daily_capacity_mt > 0
       /\ port_states[pid].total_handled - handled_at_reset[pid]
            = port_lookup(pid).daily_capacity_mt

----------------------------------------------------------------------------
(* C4 *)

\* the planned berth step of a vessel: the earliest planned berth time of its
\* assignments, or the step of its ETA when the plan names none
PlannedBerthStep(vid) ==
  IF vessel_states[vid].planned_berth_time_step # None
  THEN vessel_states[vid].planned_berth_time_step
  ELSE ToStep(vessel_lookup(vid).eta_h)

\* max(0, actual_berth_step - planned_berth_step) x step_hours / 24 x demurrage_rate
DemurrageDue(vid) ==
  LET late == vessel_states[vid].berth_time_step - PlannedBerthStep(vid)
  IN ((IF late > 0 THEN late ELSE 0) * time_step_hours * vessel_lookup(vid).demurrage_rate)
       \div 24

\* C4: simulator demurrage. A vessel that has berthed carries
\* max(0, actual_berth_step - planned_berth_step) x step_hours/24 x demurrage_rate, a
\* vessel that has not berthed carries none, and the demurrage cost component is the
\* sum of these amounts over the berthed vessels (each accrued once); a vessel berthed
\* two days after its planned berth at 5,000 per day carries exactly 10,000.
C4_Demurrage ==
  /\ \A vid \in DOMAIN vessel_states :
       /\ Berthed(vid) => vessel_states[vid].demurrage_cost = DemurrageDue(vid)
       /\ ~Berthed(vid) => vessel_states[vid].demurrage_cost = 0
       /\ ( /\ Berthed(vid)
            /\ (vessel_states[vid].berth_time_step - PlannedBerthStep(vid))
                 * time_step_hours = 48
            /\ vessel_lookup(vid).demurrage_rate = 5000 )
          => vessel_states[vid].demurrage_cost = 10000
  /\ run > 0 =>
       cost_components.demurrage =
         SumOver([ vid \in DOMAIN vessel_states |->
                     IF Berthed(vid) THEN DemurrageDue(vid) ELSE 0 ],
                 DOMAIN vessel_states)

\* a vessel berthed two days late at 5,000 per day, and one berthed on time
C4_Witness ==
  /\ \E vid \in DOMAIN vessel_states :
       /\ Berthed(vid)
       /\ (vessel_states[vid].berth_time_step - PlannedBerthStep(vid)) * time_step_hours = 48
       /\ vessel_states[vid].demurrage_cost = 10000
       /\ cost_components.demurrage = 10000
  /\ \E vid \in DOMAIN vessel_states :
       /\ Berthed(vid)
       /\ vessel_states[vid].berth_time_step > 0
       /\ vessel_states[vid].demurrage_cost = 0

----------------------------------------------------------------------------
(* C5 *)

\* C5: simulator completion. For any configured step size and horizon run_simulation
\* never leaves by an error, and every call that returns has executed exactly
\* int(simulation_days * 24 / time_step_hours) steps.
C5_RunCompletes ==
  /\ pc # "crashed"
  /\ \A i \in DOMAIN results :
       results[i].steps = (results[i].simulation_days * 24) \div time_step_hours

\* the same for steps of at most a day: completion with a stalled vessel
C5_CompletesWithinDaySteps ==
  time_step_hours <= 24 =>
    /\ pc # "crashed"
    /\ \A i \in DOMAIN results :
         results[i].steps = (results[i].simulation_days * 24) \div time_step_hours

----------------------------------------------------------------------------
(* C6 *)

\* C6: simulator idempotence. Two calls of run_simulation on the same instance with
\* the same tables, assignments, horizon and step return the same KPI set.
C6_Idempotent ==
  \A i, j \in DOMAIN results : results[i].kpis = results[j].kpis

\* a second call has returned, after a first that accrued every cost component,
\* delivered cargo and counted a rake trip
C6_Witness ==
  /\ Len(results) >= 2
  /\ results[1].kpis.demurrage_cost > 0
  /\ results[1].kpis.port_handling_cost > 0
  /\ results[1].kpis.rail_transport_cost > 0
  /\ results[1].kpis.total_cargo_delivered > 0
  /\ results[1].kpis.avg_rake_utilization[1] > 0
  /\ results[1].kpis.vessels_processed_pct[1] > 0

----------------------------------------------------------------------------
(* C7 *)

\* the hour a vessel is due: ETA plus predicted delay
DueHour(vid) ==
  vessel_lookup(vid).eta_h + vessel_states[vid].predicted_delay_h

StatusSteps ==
  { << "en_route", "waiting" >>, << "waiting", "berthed" >>, << "berthed", "departed" >> }

\* C7: vessel state machine. Within a run a vessel's status only moves
\* en_route -> waiting -> berthed -> departed, one state at a time; en_route -> waiting
\* happens at the first step whose time is >= ETA + predicted delay; berthed -> departed
\* happens exactly when cargo_remaining reaches 0.
C7_VesselStateMachine ==
  [][ run' = run =>
        \A vid \in DOMAIN vessel_states :
          LET a == vessel_states[vid].status
              b == vessel_states'[vid].status
          IN /\ a # b => << a, b >> \in StatusSteps
             /\ (a = "en_route" /\ b = "waiting") =>
                  /\ time_step * time_step_hours >= DueHour(vid)
                  /\ time_step = 0 \/ (time_step - 1) * time_step_hours < DueHour(vid)
             /\ a = "berthed" =>
                  (b = "departed" <=> vessel_states'[vid].cargo_remaining = 0) ]_vars

\* the same without the arrival time: the order of the states and the departure
C7_StatusOrderAndDeparture ==
  [][ run' = run =>
        \A vid \in DOMAIN vessel_states :
          LET a == vessel_states[vid].status
              b == vessel_states'[vid].status
          IN /\ a # b => << a, b >> \in StatusSteps
             /\ (a = "en_route" /\ b = "waiting") =>
                  time_step = Max2(0, vessel_states[vid].eta_time_step)
             /\ a = "berthed" =>
                  (b = "departed" <=> vessel_states'[vid].cargo_remaining = 0) ]_vars

----------------------------------------------------------------------------
(* C8 *)

RakeSteps ==
  { << "available", "loading" >>, << "loading", "in_transit" >>,
    << "in_transit", "unloading" >>, << "unloading", "available" >> }

\* C8: rake state machine. Within a run every change of a rake's status is one of
\* available -> loading -> in_transit -> unloading -> available; in_transit -> unloading
\* happens at or after the rake's arrival step, unloading -> available at or after the
\* unloading deadline, and a rake that returns to available is at its home port with
\* cargo_mt = 0 and no destination.
C8_RakeStateMachine ==
  [][ run' = run =>
        \A i \in DOMAIN rake_states :
          LET a == rake_states[i]
              b == rake_states'[i]
          IN /\ a.status # b.status => << a.status, b.status >> \in RakeSteps
             /\ (a.status \in {"in_transit", "unloading"} /\ a.status # b.status) =>
                  /\ a.arrival_time_step # None
                  /\ time_step >= a.arrival_time_step
             /\ (a.status = "unloading" /\ b.status = "available") =>
                  /\ b.current_location = b.home_port
                  /\ b.cargo_mt = 0
                  /\ b.destination_plant = NoId ]_vars

\* a rake has made a whole trip and is available again, and another is under way
C8_Witness ==
  /\ rake_trip_count > 0
  /\ \E i \in DOMAIN rake_states :
       /\ rake_states[i].status = "available"
       /\ rake_states[i].assignment_id # NoId
       /\ rake_states[i].current_location = rake_states[i].home_port
  /\ \E i \in DOMAIN rake_states : rake_states[i].status = "unloading"

----------------------------------------------------------------------------
(* C9 *)

\* C9: fixed per-step order. Within a run the sub-steps of a step follow one another
\* as day-boundary reset (on day boundaries only), arrivals, discharge and berthing,
\* rake assignment, rake advance and delivery, and each effect happens in its own
\* sub-step: admissions in the arrivals, discharge, berthing and departure in the
\* berth operations, rake loading in the rake assignment, deliveries in the rake
\* advance; the step counter moves only after the last of them.
C9_StepOrder ==
  [][ run' = run =>
        /\ pc = "step_start" => pc' \in {"arrivals", "crashed"}
        /\ pc = "arrivals" => pc' = "berth"
        /\ pc = "berth" => pc' = "rake_assign"
        /\ pc = "rake_assign" => pc' \in {"rake_loading", "rake_update"}
        /\ pc = "rake_loading" => pc' = "rake_assign"
        /\ pc = "rake_update" => pc' = "log"
        /\ pc = "log" => pc' \in {"step_start", "kpis"}
        /\ time_step' # time_step => pc = "log" /\ time_step' = time_step + 1
        /\ handled_at_reset' # handled_at_reset =>
             pc = "step_start" /\ (time_step * time_step_hours) % 24 = 0
        /\ \A pid \in DOMAIN port_states :
             /\ port_states'[pid].rakes_remaining > port_states[pid].rakes_remaining =>
                  pc = "step_start" /\ (time_step * time_step_hours) % 24 = 0
             /\ port_states'[pid].total_handled # port_states[pid].total_handled =>
                  pc = "berth"
             /\ port_states'[pid].total_dispatched # port_states[pid].total_dispatched =>
                  pc = "rake_assign"
        /\ \A vid \in DOMAIN vessel_states :
             vessel_states'[vid].status # vessel_states[vid].status =>
               IF vessel_states[vid].status = "en_route" THEN pc = "arrivals"
               ELSE pc = "berth"
        /\ TotalReceived' # TotalReceived => pc = "rake_update" ]_vars

\* a rake is being loaded at step t at a port whose first discharge was at step t,
\* for a vessel that was berthed in the step it was admitted
C9_Witness ==
  /\ pc = "rake_loading"
  /\ time_step > 0
  /\ \E pid \in DOMAIN port_states :
       /\ rake_states[cursor.rake].home_port = pid
       /\ cursor.load > 0
       /\ \A vid \in DOMAIN vessel_states :
            (vessel_states[vid].port_id = pid /\ Berthed(vid)) =>
              /\ vessel_states[vid].berth_time_step = time_step - 1
              /\ vessel_states[vid].berth_time_step = vessel_states[vid].eta_time_step

----------------------------------------------------------------------------
(* C10 *)

\* C10: rake assignment only for berthed or discharged vessels. A vessel that is still
\* en_route or waiting has no cargo handled on its behalf: its handled_cargo is 0, its
\* assignments' remaining_cargo is untouched and no loaded rake carries its id.
C10_NoDispatchBeforeBerth ==
  \A vid \in DOMAIN vessel_states :
    vessel_states[vid].status \in {"en_route", "waiting"} =>
      /\ vessel_states[vid].handled_cargo = 0
      /\ \A ai \in DOMAIN vessel_states[vid].assignments :
           vessel_states[vid].assignments[ai].remaining_cargo
             = vessel_states[vid].assignments[ai].total_cargo
      /\ \A i \in DOMAIN rake_states :
           rake_states[i].status # "available" => rake_states[i].assignment_id[1] # vid

----------------------------------------------------------------------------
(* C11 *)

\* the rake_dispatch events logged for a port on a day of the current first run
DispatchesLogged(pid, day) ==
  { k \in DOMAIN simulation_log :
      /\ simulation_log[k].event = "rake_dispatch"
      /\ simulation_log[k].source_port = pid
      /\ simulation_log[k].time_step \div steps_per_day = day }

\* C11: rake dispatch guard. Every step that puts a rake to loading takes a rake that
\* is available and located at the dispatching port (the port of the vessel served),
\* while that port's remaining daily rake budget and its inventory of the vessel's
\* grade are both > 0, loads at most min(rake capacity, assignment remaining cargo,
\* matching-grade inventory) and takes exactly one rake off the budget; the budget
\* and the rake states change in no other way during rake assignment, so without
\* matching-grade inventory no rake changes state and the budget is not decremented;
\* and for every port and day the dispatches number at most rakes_available_per_day.
C11_RakeDispatchGuard ==
  [][ run' = run =>
        /\ \A i \in DOMAIN rake_states :
             (rake_states[i].status = "available" /\ rake_states'[i].status = "loading") =>
               LET vid == VesselOrder[cursor'.vi]
                   port_id == vessel_states[vid].port_id
                   grade == vessel_lookup(vid).cargo_grade
                   stock == _get_port_inventory_remaining(port_states[port_id], grade)
                   left == vessel_states[vid].assignments[cursor'.ai].remaining_cargo
               IN /\ rake_states[i].current_location = port_id
                  /\ port_states[port_id].rakes_remaining > 0
                  /\ stock > 0
                  /\ rake_states'[i].cargo_mt > 0
                  /\ rake_states'[i].cargo_mt <= DEFAULT_RAKE_CAPACITY_MT
                  /\ rake_states'[i].cargo_mt <= left
                  /\ rake_states'[i].cargo_mt <= stock
                  /\ port_states'[port_id].rakes_remaining
                       = port_states[port_id].rakes_remaining - 1
                  /\ _get_port_inventory_remaining(port_states'[port_id], grade)
                       = stock - rake_states'[i].cargo_mt
                  /\ \A j \in DOMAIN rake_states \ {i} : rake_states'[j] = rake_states[j]
        /\ \A pid \in DOMAIN port_states :
             port_states'[pid].rakes_remaining < port_states[pid].rakes_remaining =>
               \E i \in DOMAIN rake_states :
                 /\ rake_states[i].status = "available"
                 /\ rake_states'[i].status = "loading"
                 /\ rake_states[i].home_port = pid
        /\ (run' = 1 /\ steps_per_day > 0) =>
             \A pid \in DOMAIN port_states', day \in 0..MaxDays :
               Cardinality(DispatchesLogged(pid, day)')
                 <= port_lookup(pid).rakes_available_per_day ]_vars

\* a port has used its whole rake budget of the day while cargo of a grade it holds
\* is still waiting, and another port holds no rake assignment for want of inventory
C11_Witness ==
  /\ pc = "rake_update"
  /\ \E pid \in DOMAIN port_states :
       /\ port_lookup(pid).rakes_available_per_day > 0
       /\ port_states[pid].rakes_remaining = 0
       /\ port_states[pid].inventory # << >>
       /\ \E i \in DOMAIN rake_states :
            /\ rake_states[i].home_port = pid
            /\ rake_states[i].status = "available"
  /\ \E pid \in DOMAIN port_states :
       /\ port_states[pid].rakes_remaining > 0
       /\ port_states[pid].inventory = << >>
       /\ \A i \in DOMAIN rake_states :
            rake_states[i].home_port = pid => rake_states[i].status = "available"

----------------------------------------------------------------------------
(* The optimizer stages: MILPOptimizer (src/milp_optimizer.py) and                *)
(* HeuristicOptimizer (src/heuristics.py).                                       *)
(*                                                                               *)
(* Units.  The day-valued floats of the source (eta_day, scheduled_day,          *)
(* berth_time, actual_berth_time, planned_berth_time, predicted_delay_days) are  *)
(* held in half-days, so that math.ceil to a whole day is kept; time_period is   *)
(* in whole days, as in the source.  Rates per day are even, so that             *)
(* half-days * rate / 2 is exact.                                                *)

\* the data dict given to both optimizers' constructors
data ==
  [ vessels |->
      << [ vessel_id |-> "V1", port_id |-> "P1", secondary_port_id |-> "P2",
           cargo_grade |-> "G1", cargo_mt |-> 6000, eta_day |-> 2,
           demurrage_rate |-> 4000 ],
         [ vessel_id |-> "V2", port_id |-> "P2", secondary_port_id |-> NoId,
           cargo_grade |-> "G2", cargo_mt |-> 3000, eta_day |-> 3,
           demurrage_rate |-> 2000 ] >>,
    ports |->
      << [ port_id |-> "P1", handling_cost_per_mt |-> 2, daily_capacity_mt |-> 8000,
           rakes_available_per_day |-> 2 ],
         [ port_id |-> "P2", handling_cost_per_mt |-> 3, daily_capacity_mt |-> 8000,
           rakes_available_per_day |-> 1 ] >>,
    plants |->
      << [ plant_id |-> "L1", daily_demand_mt |-> 1000, quality_requirements |-> "G1" ],
         [ plant_id |-> "L2", daily_demand_mt |-> 500, quality_requirements |-> "G2" ],
         [ plant_id |-> "L3", daily_demand_mt |-> 2000, quality_requirements |-> "G1" ] >>,
    rail_costs |->
      << [ port_id |-> "P1", plant_id |-> "L1", cost_per_mt |-> 100 ],
         [ port_id |-> "P2", plant_id |-> "L2", cost_per_mt |-> 200 ],
         [ port_id |-> "P1", plant_id |-> "L3", cost_per_mt |-> 300 ] >> ]

\* math.ceil of a day value held in half-days, in whole days
CeilDay(half_days) == (half_days + 1) \div 2

\* the keys of the lookups built by set_index(...).to_dict('index')
DataVesselIds == { data.vessels[i].vessel_id : i \in DOMAIN data.vessels }

DataPortIds == { data.ports[i].port_id : i \in DOMAIN data.ports }

DataPlantIds == { data.plants[i].plant_id : i \in DOMAIN data.plants }

data_vessel_lookup(vessel_id) ==
  data.vessels[CHOOSE i \in DOMAIN data.vessels : data.vessels[i].vessel_id = vessel_id]

data_port_lookup(port_id) ==
  data.ports[CHOOSE i \in DOMAIN data.ports : data.ports[i].port_id = port_id]

data_plant_lookup(plant_id) ==
  data.plants[CHOOSE i \in DOMAIN data.plants : data.plants[i].plant_id = plant_id]

\* plants_df[plants_df['quality_requirements'] == cargo_grade]['plant_id'].tolist()
compatible_plants(cargo_grade) ==
  SelectSeq([ i \in DOMAIN data.plants |-> data.plants[i].plant_id ],
            LAMBDA pl : data_plant_lookup(pl).quality_requirements = cargo_grade)

\* ceil(cargo_mt / rake_capacity_mt)
rakes_required(cargo_mt, rake_capacity_mt) ==
  (cargo_mt + rake_capacity_mt - 1) \div rake_capacity_mt

----------------------------------------------------------------------------
(* MILPOptimizer: constants, rail rate, cost of a plan, FCFS baseline *)

\* self.rake_capacity_mt of MILPOptimizer
MILP_rake_capacity_mt == 5000

\* the rate used when the rail table has no row for the pair
MILP_default_rail_cost == 100

\* port_handling_days of the baseline (1.5 days), in half-days
port_handling_days == 3

\* MILPOptimizer.predicted_delay_days: the delay the ETA predictor gave for each
\* vessel at its own port (half-days)
MILP_predicted_delay_days(vessel_id) ==
  IF vessel_id = "V1" THEN 1 ELSE 0

\* MILPOptimizer._get_rail_cost
MILP_get_rail_cost(port_id, plant_id) ==
  LET cost_row == SelectSeq(data.rail_costs,
                            LAMBDA r : r.port_id = port_id /\ r.plant_id = plant_id)
  IN IF cost_row # << >> THEN cost_row[1].cost_per_mt ELSE MILP_default_rail_cost

\* the demurrage of one assignment in MILPOptimizer._calculate_assignment_cost
MILP_demurrage_cost(assignment) ==
  LET berth_time == assignment.actual_berth_time
      vessel_eta == assignment.planned_berth_time
      delay_days == Max2(0, berth_time - vessel_eta)
  IN (delay_days * data_vessel_lookup(assignment.vessel_id).demurrage_rate) \div 2

\* MILPOptimizer._calculate_assignment_cost
_calculate_assignment_cost(assignment_list) ==
  SumSeq([ i \in DOMAIN assignment_list |->
             LET assignment == assignment_list[i]
             IN data_port_lookup(assignment.port_id).handling_cost_per_mt
                  * assignment.cargo_mt
                + MILP_get_rail_cost(assignment.port_id, assignment.plant_id)
                    * assignment.cargo_mt
                + MILP_demurrage_cost(assignment) ])

\* vessels_df.sort_values('eta_day'), as indexes of the vessels table
RECURSIVE vessels_sorted(_)
vessels_sorted(left) ==
  IF left = {} THEN << >>
  ELSE LET first == CHOOSE i \in left :
                      \A j \in left :
                        \/ data.vessels[i].eta_day < data.vessels[j].eta_day
                        \/ data.vessels[i].eta_day = data.vessels[j].eta_day /\ i <= j
       IN << first >> \o vessels_sorted(left \ {first})

\* compatible_plants.loc[compatible_plants['daily_demand_mt'].idxmax()]: the first
\* plant of the greatest demand
target_plant(cargo_grade) ==
  LET plants == compatible_plants(cargo_grade)
      k == CHOOSE i \in DOMAIN plants :
             \A j \in DOMAIN plants :
               \/ data_plant_lookup(plants[i]).daily_demand_mt
                    > data_plant_lookup(plants[j]).daily_demand_mt
               \/ /\ data_plant_lookup(plants[i]).daily_demand_mt
                       = data_plant_lookup(plants[j]).daily_demand_mt
                  /\ i <= j
  IN plants[k]

\* the loop of create_baseline_solution from position k of the sorted vessels on;
\* port_utilization maps a port to the time it is free again
RECURSIVE BaselineFrom(_, _, _)
BaselineFrom(k, port_utilization, done) ==
  LET order == vessels_sorted(DOMAIN data.vessels)
  IN IF k > Len(order) THEN done
     ELSE LET vessel == data.vessels[order[k]]
              vessel_port == vessel.port_id
              eta == vessel.eta_day
              predicted_delay == MILP_predicted_delay_days(vessel.vessel_id)
          IN IF compatible_plants(vessel.cargo_grade) = << >>
             THEN BaselineFrom(k + 1, port_utilization, done)
             ELSE LET available_time ==
                        IF vessel_port \in DOMAIN port_utilization
                        THEN port_utilization[vessel_port] ELSE eta
                      actual_berth_time == Max2(eta + predicted_delay, available_time)
                      scheduled_day == CeilDay(actual_berth_time)
                      assignment ==
                        [ vessel_id |-> vessel.vessel_id,
                          port_id |-> vessel_port,
                          plant_id |-> target_plant(vessel.cargo_grade),
                          time_period |-> scheduled_day,
                          scheduled_day |-> 2 * scheduled_day,
                          cargo_mt |-> vessel.cargo_mt,
                          berth_time |-> actual_berth_time,
                          actual_berth_time |-> actual_berth_time,
                          planned_berth_time |-> eta,
                          predicted_delay_days |-> predicted_delay,
                          rakes_required |->
                            rakes_required(vessel.cargo_mt, MILP_rake_capacity_mt) ]
                  IN BaselineFrom(
                       k + 1,
                       [ p \in DOMAIN port_utilization \cup {vessel_port} |->
                           IF p = vessel_port THEN actual_berth_time + port_handling_days
                           ELSE port_utilization[p] ],
                       Append(done, assignment))

\* MILPOptimizer.create_baseline_solution
create_baseline_solution ==
  LET baseline == BaselineFrom(1, << >>, << >>)
  IN [ status |-> "Baseline_FCFS",
       objective_value |-> _calculate_assignment_cost(baseline),
       assignments |-> baseline ]

----------------------------------------------------------------------------
(* HeuristicOptimizer: constructor tables and the cost of a plan *)

\* self.rake_capacity_mt of HeuristicOptimizer
Heuristic_rake_capacity_mt == 5000

secondary_port_penalty_per_mt == 50

\* the rate used when the rail table has no row for the pair
Heuristic_default_rail_cost == 100

\* penalty per MT over a port's daily capacity, and per rake over its daily rakes
capacity_penalty_per_mt == 50

rake_shortage_penalty == 10000

\* port_lookup.get(port_id) is not None
KnownPort(port_id) == port_id \in DataPortIds

\* _parse_allowed_ports: the primary port, then the secondary port if the table has it
_parse_allowed_ports(vessel_row) ==
  LET primary_port == vessel_row.port_id
      token == vessel_row.secondary_port_id
  IN IF token = NoId THEN << primary_port >>
     ELSE IF token # primary_port /\ KnownPort(token) THEN << primary_port, token >>
     ELSE << primary_port >>

vessel_allowed_ports(vessel_id) == _parse_allowed_ports(data_vessel_lookup(vessel_id))

primary_port_map(vessel_id) == data_vessel_lookup(vessel_id).port_id

\* HeuristicOptimizer.predicted_delay_days: the delay the ETA predictor gave for each
\* vessel at each of its allowed ports (half-days); .get(..., 0.0) elsewhere
predicted_delay_days(vessel_id, port_id) ==
  IF vessel_id = "V1" /\ port_id = "P2" THEN 2 ELSE 0

\* HeuristicOptimizer._get_rail_cost
Heuristic_get_rail_cost(port_id, plant_id) ==
  LET cost_row == SelectSeq(data.rail_costs,
                            LAMBDA r : r.port_id = port_id /\ r.plant_id = plant_id)
  IN IF cost_row # << >> THEN cost_row[1].cost_per_mt ELSE Heuristic_default_rail_cost

\* the port _calculate_total_cost prices an assignment at, and writes back into the
\* assignment: its port_id, or the vessel's primary port when port_id is unknown
RepairedPort(assignment) ==
  IF KnownPort(assignment.port_id) THEN assignment.port_id
  ELSE IF assignment.vessel_id \in DataVesselIds
          /\ KnownPort(primary_port_map(assignment.vessel_id))
  THEN primary_port_map(assignment.vessel_id)
  ELSE assignment.port_id

\* the assignment dicts as _calculate_total_cost leaves them (assignment['port_id'] = port_id)
RepairPorts(assignment_list) ==
  [ i \in DOMAIN assignment_list |->
      [ assignment_list[i] EXCEPT !.port_id = RepairedPort(assignment_list[i]) ] ]

\* the demurrage of one assignment in HeuristicOptimizer._calculate_total_cost
Heuristic_demurrage_cost(assignment) ==
  LET berth_time == assignment.actual_berth_time
      vessel_eta == assignment.planned_berth_time
      delay_days == Max2(0, berth_time - vessel_eta)
  IN (delay_days * data_vessel_lookup(assignment.vessel_id).demurrage_rate) \div 2

\* port, rail and demurrage cost of one assignment; nothing when no port is usable
Heuristic_assignment_cost(assignment) ==
  LET port_id == RepairedPort(assignment)
      cargo_mt == assignment.cargo_mt
      primary_port == primary_port_map(assignment.vessel_id)
  IN IF ~KnownPort(port_id) THEN 0
     ELSE data_port_lookup(port_id).handling_cost_per_mt * cargo_mt
          + (IF port_id # primary_port THEN cargo_mt * secondary_port_penalty_per_mt ELSE 0)
          + Heuristic_get_rail_cost(port_id, assignment.plant_id) * cargo_mt
          + Heuristic_demurrage_cost(assignment)

\* _calculate_constraint_penalties: per (port, day), cargo over the daily capacity and
\* rakes over the daily rakes
_calculate_constraint_penalties(assignment_list) ==
  LET keys == { << assignment_list[i].port_id, assignment_list[i].time_period >> :
                  i \in DOMAIN assignment_list }
      port_usage(key) ==
        SumSeq([ i \in DOMAIN assignment_list |->
                   IF << assignment_list[i].port_id, assignment_list[i].time_period >> = key
                   THEN assignment_list[i].cargo_mt ELSE 0 ])
      rake_usage(key) ==
        SumSeq([ i \in DOMAIN assignment_list |->
                   IF << assignment_list[i].port_id, assignment_list[i].time_period >> = key
                   THEN assignment_list[i].rakes_required ELSE 0 ])
      capacity(key) == data_port_lookup(key[1]).daily_capacity_mt
      available(key) == data_port_lookup(key[1]).rakes_available_per_day
  IN SumOver([ key \in keys |->
                 (IF port_usage(key) > capacity(key)
                  THEN (port_usage(key) - capacity(key)) * capacity_penalty_per_mt ELSE 0)
                 + (IF rake_usage(key) > available(key)
                    THEN (rake_usage(key) - available(key)) * rake_shortage_penalty ELSE 0) ],
             keys)

\* HeuristicOptimizer._calculate_total_cost: the value it returns
_calculate_total_cost(assignment_list) ==
  SumSeq([ i \in DOMAIN assignment_list |-> Heuristic_assignment_cost(assignment_list[i]) ])
    + _calculate_constraint_penalties(RepairPorts(assignment_list))

----------------------------------------------------------------------------
(* Python objects: the assignment dicts live in a heap and lists hold references, *)
(* so that list.copy() shares the dicts and copy.deepcopy() does not              *)

\* the references of the n objects of a region
refs_of(region, n) == [ i \in 1..n |-> << region, i >> ]

\* the dicts a list of references points at
deref(heap, refs) == [ i \in DOMAIN refs |-> heap[refs[i]] ]

\* writing values through a list of references
store(heap, refs, values) ==
  [ r \in DOMAIN heap |->
      IF \E i \in DOMAIN refs : refs[i] = r
      THEN values[CHOOSE i \in DOMAIN refs : refs[i] = r]
      ELSE heap[r] ]

\* fresh objects holding the values, in a region whose former objects are garbage
allocate(heap, region, values) ==
  [ r \in { q \in DOMAIN heap : q[1] # region }
           \cup { << region, i >> : i \in DOMAIN values } |->
      IF r[1] = region THEN values[r[2]] ELSE heap[r] ]

----------------------------------------------------------------------------
(* Solutions given to the heuristic refiner *)

\* the assignment dict _extract_assignments builds for a positive flow of vessel v at
\* port p to plant pl in period t (days)
extracted_assignment(v, p, pl, t, cargo_amount) ==
  LET predicted_delay == MILP_predicted_delay_days(v)
      planned_eta == data_vessel_lookup(v).eta_day
  IN [ vessel_id |-> v, port_id |-> p, plant_id |-> pl,
       time_period |-> t, scheduled_day |-> 2 * t,
       cargo_mt |-> cargo_amount,
       berth_time |-> 2 * t + predicted_delay,
       actual_berth_time |-> 2 * t + predicted_delay,
       planned_berth_time |-> planned_eta,
       predicted_delay_days |-> predicted_delay,
       rakes_required |-> rakes_required(cargo_amount, MILP_rake_capacity_mt),
       eta_day |-> planned_eta ]

\* an exact-solver solution in which the cargo of V1 is split over two plants
SplitSolution ==
  LET split == << extracted_assignment("V1", "P1", "L1", 1, 3000),
                  extracted_assignment("V1", "P1", "L3", 1, 3000),
                  extracted_assignment("V2", "P2", "L2", 2, 3000) >>
  IN [ status |-> "Optimal",
       objective_value |-> _calculate_assignment_cost(split),
       assignments |-> split ]

\* the baseline solution with the port of its first assignment renamed to a port that
\* is not in the ports table
UnknownPortSolution ==
  [ create_baseline_solution EXCEPT !.assignments[1].port_id = "PX" ]

\* the baseline solution with V2 moved to P1, a port of the ports table that is not
\* among the allowed ports of V2
DisallowedPortSolution ==
  [ create_baseline_solution EXCEPT !.assignments[2].port_id = "P1" ]

SolutionChoices ==
  { create_baseline_solution, SplitSolution, UnknownPortSolution, DisallowedPortSolution }

----------------------------------------------------------------------------
(* HeuristicOptimizer.run_simulated_annealing *)

MaxIterations == 2

\* initial_temp
InitialTempChoices == {0, 10000}

\* cooling_rate, in hundredths
cooling_rate == 95

\* random.uniform(-2, 2) days, in half-days
TimeDeltaChoices == {-1, 2}

\* the neighbours _generate_neighbor can return for the assignment at idx being
\* modified in way modification: a deep copy with at most that assignment changed
NeighborsAt(assignment_list, idx, modification) ==
  LET assignment == assignment_list[idx]
      vessel_id == assignment.vessel_id
      vessel_data == data_vessel_lookup(vessel_id)
      eta_day == vessel_data.eta_day
      With(a) == [ assignment_list EXCEPT ![idx] = a ]
  IN CASE modification = "plant" ->
            LET plants == compatible_plants(vessel_data.cargo_grade)
                new_plants == { plants[i] : i \in DOMAIN plants } \ {assignment.plant_id}
            IN IF Len(plants) > 1 /\ new_plants # {}
               THEN { With([ assignment EXCEPT !.plant_id = pl ]) : pl \in new_plants }
               ELSE { assignment_list }
       [] modification = "port" ->
            LET allowed_ports == vessel_allowed_ports(vessel_id)
                current_port == assignment.port_id
                alternative_ports ==
                  { allowed_ports[i] : i \in DOMAIN allowed_ports } \ {current_port}
                primary_port == primary_port_map(vessel_id)
                chosen_ports ==
                  IF alternative_ports # {} THEN {primary_port} \cup alternative_ports
                  ELSE {primary_port}
            IN { IF chosen_port = current_port THEN assignment_list
                 ELSE LET scheduled_day == assignment.scheduled_day
                          new_delay == predicted_delay_days(vessel_id, chosen_port)
                          actual_berth == scheduled_day + new_delay
                      IN With([ assignment EXCEPT
                                  !.port_id = chosen_port,
                                  !.predicted_delay_days = new_delay,
                                  !.berth_time = actual_berth,
                                  !.actual_berth_time = actual_berth,
                                  !.time_period = CeilDay(scheduled_day) ])
                 : chosen_port \in chosen_ports }
       [] modification = "time" ->
            { LET new_schedule == Max2(eta_day, assignment.scheduled_day + delta)
                  predicted_delay == assignment.predicted_delay_days
                  actual_berth == new_schedule + predicted_delay
              IN With([ assignment EXCEPT
                          !.scheduled_day = new_schedule,
                          !.time_period = CeilDay(new_schedule),
                          !.berth_time = actual_berth,
                          !.actual_berth_time = actual_berth,
                          !.predicted_delay_days = predicted_delay ])
              : delta \in TimeDeltaChoices }

\* _generate_neighbor: every list it can return
_generate_neighbor(assignment_list) ==
  IF assignment_list = << >> THEN { assignment_list }
  ELSE UNION { NeighborsAt(assignment_list, idx, modification) :
                 idx \in DOMAIN assignment_list,
                 modification \in {"plant", "time", "port"} }

\* variant of the test for a new best that takes every accepted better neighbour
improves_on_current(current_cost, best_cost) == TRUE

\* whether an accepted neighbour becomes the best seen (current_cost < best_cost)
improves_on_best(current_cost, best_cost) == current_cost < best_cost

\* temperature *= cooling_rate
cooled(temperature) == (temperature * cooling_rate) \div 100

\* the call up to the loop: the list is copied, not the dicts; the cost of the
\* current list is computed, which writes repaired ports into its dicts; the best
\* list is a deep copy
RunSimulatedAnnealing ==
  /\ annealing.pc = "idle"
  /\ LET refs == annealing.initial_solution.assignments
         heap == annealing.heap
         current_cost == _calculate_total_cost(deref(heap, refs))
         costed == store(heap, refs, RepairPorts(deref(heap, refs)))
     IN annealing' =
          [ annealing EXCEPT
              !.pc = "loop",
              !.current_assignments = refs,
              !.current_cost = current_cost,
              !.heap = allocate(costed, "best", deref(costed, refs)),
              !.best_assignments = refs_of("best", Len(refs)),
              !.best_cost = current_cost,
              !.temperature = annealing.initial_temp,
              !.iteration = 0 ]
  /\ UNCHANGED << simulator, genetic, milp, pricing, seeding >>

\* an iteration whose neighbour costs less than the current list: it becomes the
\* current list, and the best list if it improves on the best cost
AcceptBetter ==
  /\ annealing.pc = "loop"
  /\ annealing.iteration < annealing.max_iterations
  /\ \E neighbor \in _generate_neighbor(deref(annealing.heap,
                                                annealing.current_assignments)) :
       LET neighbor_cost == _calculate_total_cost(neighbor)
           moved == allocate(annealing.heap, "current", RepairPorts(neighbor))
           refs == refs_of("current", Len(neighbor))
           better == improves_on_best(neighbor_cost, annealing.best_cost)
       IN /\ neighbor_cost < annealing.current_cost
          /\ annealing' =
               [ annealing EXCEPT
                   !.current_assignments = refs,
                   !.current_cost = neighbor_cost,
                   !.heap = IF better THEN allocate(moved, "best", deref(moved, refs))
                            ELSE moved,
                   !.best_cost = IF better THEN neighbor_cost ELSE @,
                   !.temperature = cooled(@),
                   !.iteration = @ + 1 ]
  /\ UNCHANGED << simulator, genetic, milp, pricing, seeding >>

\* an iteration whose neighbour costs no less and is accepted: random.random() is
\* below exp(-delta / temperature), which needs a positive temperature
AcceptWorse ==
  /\ annealing.pc = "loop"
  /\ annealing.iteration < annealing.max_iterations
  /\ annealing.temperature > 0
  /\ \E neighbor \in _generate_neighbor(deref(annealing.heap,
                                                annealing.current_assignments)) :
       LET neighbor_cost == _calculate_total_cost(neighbor)
       IN /\ neighbor_cost >= annealing.current_cost
          /\ annealing' =
               [ annealing EXCEPT
                   !.current_assignments = refs_of("current", Len(neighbor)),
                   !.current_cost = neighbor_cost,
                   !.heap = allocate(annealing.heap, "current", RepairPorts(neighbor)),
                   !.temperature = cooled(@),
                   !.iteration = @ + 1 ]
  /\ UNCHANGED << simulator, genetic, milp, pricing, seeding >>

\* an iteration whose neighbour costs no less and is rejected: the probability is 0
\* at temperature 0 and below 1 for a dearer neighbour
RejectWorse ==
  /\ annealing.pc = "loop"
  /\ annealing.iteration < annealing.max_iterations
  /\ \E neighbor \in _generate_neighbor(deref(annealing.heap,
                                                annealing.current_assignments)) :
       LET neighbor_cost == _calculate_total_cost(neighbor)
       IN /\ neighbor_cost >= annealing.current_cost
          /\ annealing.temperature <= 0 \/ neighbor_cost > annealing.current_cost
  /\ annealing' = [ annealing EXCEPT !.temperature = cooled(@), !.iteration = @ + 1 ]
  /\ UNCHANGED << simulator, genetic, milp, pricing, seeding >>

\* the loop is over: the result dict
AnnealingReturn ==
  /\ annealing.pc = "loop"
  /\ annealing.iteration = annealing.max_iterations
  /\ annealing' =
       [ annealing EXCEPT
           !.pc = "done",
           !.result =
              [ status |-> "SA_Refined",
                objective_value |-> annealing.best_cost,
                assignments |-> deref(annealing.heap, annealing.best_assignments),
                iterations |-> annealing.max_iterations,
                initial_cost |-> annealing.initial_solution.objective_value,
                improvement |->
                  annealing.initial_solution.objective_value - annealing.best_cost ] ]
  /\ UNCHANGED << simulator, genetic, milp, pricing, seeding >>

\* no simulator has been built
NoSimulator ==
  /\ time_step_hours = 24
  /\ simulation_days = 0
  /\ ports_df = << >>
  /\ vessels_df = << >>
  /\ assignments = << >>
  /\ pc = "idle"
  /\ run = 0
  /\ time_step = 0
  /\ cursor = NoCursor
  /\ current_time = 0
  /\ total_time_steps = 0
  /\ vessel_states = << >>
  /\ port_states = << >>
  /\ plant_states = << >>
  /\ rake_states = << >>
  /\ cost_components =
       [ demurrage |-> 0, port_handling |-> 0, rail_transport |-> 0,
         storage |-> 0, ocean_freight |-> 0, rerouting_penalty |-> 0 ]
  /\ rake_trip_count = 0
  /\ simulation_log = << >>
  /\ results = << >>
  /\ handled_at_reset = << >>

\* the arguments of a call of run_simulated_annealing; seed_at_call keeps the
\* assignment dicts of initial_solution as they are when the call is made
InitAnnealing ==
  /\ NoSimulator
  /\ \E initial_solution \in SolutionChoices,
        max_iterations \in 0..MaxIterations,
        initial_temp \in InitialTempChoices :
       annealing =
         [ pc |-> "idle",
           heap |-> allocate(<< >>, "seed", initial_solution.assignments),
           initial_solution |->
             [ initial_solution EXCEPT
                 !.assignments = refs_of("seed", Len(initial_solution.assignments)) ],
           seed_at_call |-> initial_solution.assignments,
           max_iterations |-> max_iterations,
           initial_temp |-> initial_temp,
           current_assignments |-> << >>,
           current_cost |-> 0,
           best_assignments |-> << >>,
           best_cost |-> 0,
           temperature |-> 0,
           iteration |-> 0,
           result |-> [ status |-> "none" ] ]
  /\ genetic = NotCalled
  /\ milp = NotCalled
  /\ pricing = NotCalled
  /\ seeding = NotCalled

NextAnnealing ==
  \/ RunSimulatedAnnealing
  \/ AcceptBetter
  \/ AcceptWorse
  \/ RejectWorse
  \/ AnnealingReturn

SpecAnnealing == InitAnnealing /\ [][NextAnnealing]_vars

----------------------------------------------------------------------------
(* C12 *)

\* C12: annealing never regresses the best-known cost. Over the iterations of
\* run_simulated_annealing best_cost never rises, whatever neighbours are generated
\* and accepted; it is the cost of the best list kept and never above the current
\* cost; and the objective_value returned is best_cost, at most the refiner's own
\* cost of the initial assignments.
C12_BestCostNeverRegresses ==
  [][ annealing.pc = "loop" =>
        /\ annealing'.best_cost <= annealing.best_cost
        /\ annealing'.best_cost <= annealing'.current_cost
        /\ annealing'.best_cost =
             _calculate_total_cost(deref(annealing'.heap, annealing'.best_assignments))
        /\ annealing'.pc = "done" =>
             /\ annealing'.result.objective_value = annealing.best_cost
             /\ annealing'.result.objective_value
                  <= _calculate_total_cost(annealing.seed_at_call) ]_vars

\* a call has returned a cost below the cost of the initial assignments, found in the
\* first iteration, after a dearer neighbour with a later berth was accepted in the
\* second: the current list is dearer than the best kept
C12_Witness ==
  /\ annealing.pc = "done"
  /\ annealing.iteration = 2
  /\ annealing.current_cost > annealing.best_cost
  /\ annealing.result.objective_value < _calculate_total_cost(annealing.seed_at_call)
  /\ \E i \in DOMAIN annealing.seed_at_call :
       annealing.seed_at_call[i].actual_berth_time
         < deref(annealing.heap, annealing.current_assignments)[i].actual_berth_time

----------------------------------------------------------------------------
(* C17 *)

\* C17: the refiner never mutates the seed solution in place. In every state of a
\* call of run_simulated_annealing(initial_solution = S), every assignment dict of S
\* has the field values it had when the call was made, also when S holds an
\* assignment whose port id is unknown and is repaired for cost evaluation.
C17_SeedNotMutated ==
  deref(annealing.heap, annealing.initial_solution.assignments) = annealing.seed_at_call

----------------------------------------------------------------------------
(* HeuristicOptimizer.run_genetic_algorithm.  An individual is a list of genes     *)
(* (vessel_id, port_id, plant_id, berth_day); the generations are those of         *)
(* deap.algorithms.eaSimple: select, mate pairs, mutate, evaluate, replace.        *)

MaxGenerations == 1

\* population_size
PopulationSizeChoices == {1, 2}

\* random.uniform(0, 7) and random.uniform(0, 10) days past the ETA, in half-days
BerthOffsetChoices == {0, 3}

\* the genes _create_individual can draw for a vessel
GenesOf(vessel) ==
  LET allowed_ports == vessel_allowed_ports(vessel.vessel_id)
      plants == compatible_plants(vessel.cargo_grade)
  IN { << vessel.vessel_id, allowed_ports[k], plants[j], vessel.eta_day + offset >> :
         k \in DOMAIN allowed_ports, j \in DOMAIN plants, offset \in BerthOffsetChoices }

\* _create_individual: one gene for each vessel that has a compatible plant, in
\* table order; every individual it can return, from vessel k on
RECURSIVE IndividualsFrom(_)
IndividualsFrom(k) ==
  IF k > Len(data.vessels) THEN { << >> }
  ELSE IF compatible_plants(data.vessels[k].cargo_grade) = << >>
  THEN IndividualsFrom(k + 1)
  ELSE { << gene >> \o rest :
           gene \in GenesOf(data.vessels[k]), rest \in IndividualsFrom(k + 1) }

_create_individual == IndividualsFrom(1)

\* _individual_to_assignments
_individual_to_assignments(individual) ==
  [ i \in DOMAIN individual |->
      LET vessel_id == individual[i][1]
          plant_id == individual[i][3]
          berth_day == individual[i][4]
          vessel_data == data_vessel_lookup(vessel_id)
          allowed_ports == vessel_allowed_ports(vessel_id)
          port_id == IF \E k \in DOMAIN allowed_ports : allowed_ports[k] = individual[i][2]
                     THEN individual[i][2] ELSE allowed_ports[1]
          scheduled_day == IF berth_day = None THEN vessel_data.eta_day ELSE berth_day
          predicted_delay == predicted_delay_days(vessel_id, port_id)
          actual_berth_time == scheduled_day + predicted_delay
      IN [ vessel_id |-> vessel_id,
           port_id |-> port_id,
           plant_id |-> plant_id,
           time_period |-> CeilDay(scheduled_day),
           scheduled_day |-> scheduled_day,
           cargo_mt |-> vessel_data.cargo_mt,
           berth_time |-> actual_berth_time,
           actual_berth_time |-> actual_berth_time,
           planned_berth_time |-> vessel_data.eta_day,
           predicted_delay_days |-> predicted_delay,
           rakes_required |->
             rakes_required(vessel_data.cargo_mt, Heuristic_rake_capacity_mt) ] ]

\* _assignments_to_individual: one gene for each assignment
_assignments_to_individual(assignment_list) ==
  [ i \in DOMAIN assignment_list |->
      LET assignment == assignment_list[i]
          port_id == IF assignment.port_id = NoId
                     THEN primary_port_map(assignment.vessel_id)
                     ELSE assignment.port_id
      IN << assignment.vessel_id, port_id, assignment.plant_id, assignment.berth_time >> ]

\* the assignments the refiner itself returns for a plan that takes V1 to its
\* secondary port
RefinedAssignments ==
  _individual_to_assignments(
    << << "V1", "P2", "L1", data_vessel_lookup("V1").eta_day >>,
       << "V2", "P2", "L2", data_vessel_lookup("V2").eta_day >> >>)

\* seed_solution: none, or the assignments of an earlier stage's solution
SeedChoices == { << >>, SplitSolution.assignments, RefinedAssignments }

\* _evaluate_individual
_evaluate_individual(individual) ==
  _calculate_total_cost(_individual_to_assignments(individual))

\* _crossover: every pair it can return; equal lengths above 2 swap a slice
\* [point1, point2) of genes, counted from 0
_crossover(ind1, ind2) ==
  IF Len(ind1) # Len(ind2) \/ Len(ind1) <= 2 THEN { << ind1, ind2 >> }
  ELSE { << [ i \in DOMAIN ind1 |->
                IF points[1] < i /\ i <= points[2] THEN ind2[i] ELSE ind1[i] ],
            [ i \in DOMAIN ind2 |->
                IF points[1] < i /\ i <= points[2] THEN ind1[i] ELSE ind2[i] ] >> :
           points \in { pt \in (1..(Len(ind1) - 2)) \X (1..(Len(ind1) - 1)) :
                          pt[1] <= pt[2] } }

\* _mutate: every individual it can return
_mutate(individual) ==
  IF individual = << >> THEN { individual }
  ELSE UNION {
    LET vessel_id == individual[idx][1]
        port_id == individual[idx][2]
        plant_id == individual[idx][3]
        berth_day == individual[idx][4]
        vessel_data == data_vessel_lookup(vessel_id)
        allowed_ports == vessel_allowed_ports(vessel_id)
        plants == compatible_plants(vessel_data.cargo_grade)
        new_plants ==
          IF mutation_type \in {"plant", "plant_time"} /\ plants # << >>
          THEN { plants[j] : j \in DOMAIN plants } ELSE { plant_id }
        other_ports == { allowed_ports[k] : k \in DOMAIN allowed_ports } \ {port_id}
        primary_port == primary_port_map(vessel_id)
        new_ports ==
          IF mutation_type # "port" THEN { port_id }
          ELSE IF other_ports # {} THEN {primary_port} \cup other_ports
          ELSE {primary_port}
        new_days ==
          IF mutation_type \in {"time", "plant_time"}
          THEN { vessel_data.eta_day + offset : offset \in BerthOffsetChoices }
          ELSE { berth_day }
    IN { [ individual EXCEPT ![idx] = << vessel_id, p, pl, day >> ] :
           p \in new_ports, pl \in new_plants, day \in new_days }
    : idx \in DOMAIN individual,
      mutation_type \in {"plant", "time", "port", "plant_time"} }

\* tools.selBest(population, 1)[0]: the first individual of the least cost
selBest(population) ==
  population[CHOOSE i \in DOMAIN population :
               \A j \in DOMAIN population :
                 \/ _evaluate_individual(population[i]) < _evaluate_individual(population[j])
                 \/ /\ _evaluate_individual(population[i])
                        = _evaluate_individual(population[j])
                    /\ i <= j]

\* the call up to the generations: the random population, the seeded individual in
\* its first place
RunGeneticAlgorithm ==
  /\ genetic.pc = "idle"
  /\ \E population \in [ 1..genetic.population_size -> _create_individual ] :
       LET seeded_individual == _assignments_to_individual(genetic.seed_solution)
       IN genetic' =
            [ genetic EXCEPT
                !.pc = "select",
                !.population =
                   IF genetic.seed_solution # << >> /\ seeded_individual # << >>
                   THEN [ population EXCEPT ![1] = seeded_individual ]
                   ELSE population,
                !.generation = 0 ]
  /\ UNCHANGED << simulator, annealing, milp, pricing, seeding >>

\* toolbox.select(population, len(population)): tournaments draw with replacement,
\* so any individual can take any place among the offspring
Select ==
  /\ genetic.pc = "select"
  /\ genetic.generation < genetic.generations
  /\ \E picks \in [ DOMAIN genetic.population -> DOMAIN genetic.population ] :
       genetic' =
         [ genetic EXCEPT
             !.pc = "mate",
             !.offspring = [ i \in DOMAIN picks |-> genetic.population[picks[i]] ] ]
  /\ UNCHANGED << simulator, annealing, milp, pricing, seeding >>

\* varAnd, first half: neighbouring pairs of offspring are mated with probability cxpb
Mate ==
  /\ genetic.pc = "mate"
  /\ \/ genetic' = [ genetic EXCEPT !.pc = "mutate", !.cursor = 1 ]
     \/ /\ Len(genetic.offspring) >= 2
        /\ \E pair \in _crossover(genetic.offspring[1], genetic.offspring[2]) :
             genetic' =
               [ genetic EXCEPT
                   !.pc = "mutate",
                   !.cursor = 1,
                   !.offspring = [ @ EXCEPT ![1] = pair[1], ![2] = pair[2] ] ]
  /\ UNCHANGED << simulator, annealing, milp, pricing, seeding >>

\* varAnd, second half: each offspring is mutated with probability mutpb
Mutate ==
  /\ genetic.pc = "mutate"
  /\ genetic.cursor <= Len(genetic.offspring)
  /\ \E mutant \in {genetic.offspring[genetic.cursor]}
                      \cup _mutate(genetic.offspring[genetic.cursor]) :
       genetic' =
         [ genetic EXCEPT
             !.offspring = [ @ EXCEPT ![genetic.cursor] = mutant ],
             !.cursor = @ + 1 ]
  /\ UNCHANGED << simulator, annealing, milp, pricing, seeding >>

\* the offspring are evaluated and replace the population
Replace ==
  /\ genetic.pc = "mutate"
  /\ genetic.cursor > Len(genetic.offspring)
  /\ genetic' =
       [ genetic EXCEPT
           !.pc = "select",
           !.population = genetic.offspring,
           !.offspring = << >>,
           !.cursor = 0,
           !.generation = @ + 1 ]
  /\ UNCHANGED << simulator, annealing, milp, pricing, seeding >>

\* the generations are over: the best individual is converted and returned
GeneticReturn ==
  /\ genetic.pc = "select"
  /\ genetic.generation = genetic.generations
  /\ LET best_individual == selBest(genetic.population)
     IN genetic' =
          [ genetic EXCEPT
              !.pc = "done",
              !.result =
                 [ status |-> "GA_Optimized",
                   objective_value |-> _evaluate_individual(best_individual),
                   assignments |-> _individual_to_assignments(best_individual),
                   generations |-> genetic.generations,
                   population_size |-> genetic.population_size ] ]
  /\ UNCHANGED << simulator, annealing, milp, pricing, seeding >>

\* the arguments of a call of run_genetic_algorithm
InitGenetic ==
  /\ NoSimulator
  /\ \E population_size \in PopulationSizeChoices,
        generations \in 0..MaxGenerations,
        seed_solution \in SeedChoices :
       genetic =
         [ pc |-> "idle",
           population_size |-> population_size,
           generations |-> generations,
           seed_solution |-> seed_solution,
           population |-> << >>,
           offspring |-> << >>,
           cursor |-> 0,
           generation |-> 0,
           result |-> [ status |-> "none" ] ]
  /\ annealing = NotCalled
  /\ milp = NotCalled
  /\ pricing = NotCalled
  /\ seeding = NotCalled

NextGenetic ==
  \/ RunGeneticAlgorithm
  \/ Select
  \/ Mate
  \/ Mutate
  \/ Replace
  \/ GeneticReturn

SpecGenetic == InitGenetic /\ [][NextGenetic]_vars

----------------------------------------------------------------------------
(* C13: cargo conservation of the returned solutions                               *)

\* the cargo_mt a list of assignments gives a vessel, summed
RECURSIVE AssignedCargo(_, _)
AssignedCargo(assignment_list, vessel_id) ==
  IF assignment_list = << >> THEN 0
  ELSE (IF Head(assignment_list).vessel_id = vessel_id
        THEN Head(assignment_list).cargo_mt ELSE 0)
       + AssignedCargo(Tail(assignment_list), vessel_id)

\* C13: in the solution run_genetic_algorithm returns, unseeded or seeded with a
\* solution that splits a vessel's cargo over several assignments, the cargo_mt of
\* each vessel's assignments adds up to the vessel's cargo_mt.
C13_CargoConserved ==
  genetic.pc = "done" =>
    \A vessel_id \in DataVesselIds :
      AssignedCargo(genetic.result.assignments, vessel_id)
        = data_vessel_lookup(vessel_id).cargo_mt

----------------------------------------------------------------------------
(* MILPOptimizer.build_milp_model and solve_milp.  A solver solution gives each    *)
(* vessel (in table order) the period t with y[v, port, t] = 1 and the flows       *)
(* x[v, port, pl, t] to the plants (in table order); every other x and y is 0 by   *)
(* constraints 2, 4, 5 and 5b, and z is the least integer constraint 7 allows.     *)
(* Cargo and capacities are multiples of 1000 MT, so the vertices of the flow      *)
(* polytope are, and flows are drawn in steps of 1000 MT.                          *)

\* time_horizon_days of the constructor
TimeHorizonChoices == {1, 2}

\* solver_name
SolverNameChoices == {"CBC", "GUROBI", "HiGHS"}

NoFault == ""

\* exceptions build_milp_model can raise
BuildFaultChoices == {"KeyError: 'handling_cost_per_mt'"}

\* exceptions prob.solve(solver) can raise
SolveFaultChoices(solver) ==
  IF solver = "GUROBI_CMD" THEN {"PulpSolverError: PuLP: cannot execute gurobi_cl"}
  ELSE {"PulpSolverError: Pulp: Error while executing cbc"}

\* the flows of one vessel: any split of its cargo over the plants
RECURSIVE FlowsOver(_, _)
FlowsOver(plant_count, cargo) ==
  IF plant_count = 0 THEN (IF cargo = 0 THEN { << >> } ELSE {})
  ELSE UNION { { Append(rest, 1000 * k) : rest \in FlowsOver(plant_count - 1, cargo - 1000 * k) }
               : k \in 0..(cargo \div 1000) }

\* constraints 1, 3 and 4 for the vessel at position k: all its cargo flows in one
\* period not before its ETA
VesselSchedules(k, time_horizon) ==
  { [ t |-> t, flow |-> flow ] :
      t \in { period \in 1..time_horizon : ~(2 * period < data.vessels[k].eta_day) },
      flow \in FlowsOver(Len(data.plants), data.vessels[k].cargo_mt) }

RECURSIVE SchedulesFrom(_, _)
SchedulesFrom(k, time_horizon) ==
  IF k > Len(data.vessels) THEN { << >> }
  ELSE { << schedule >> \o rest :
           schedule \in VesselSchedules(k, time_horizon),
           rest \in SchedulesFrom(k + 1, time_horizon) }

\* sum of x[v, p, pl, t] over the vessels, for the plant at position j
FlowAt(solution, p, j, t) ==
  SumSeq([ k \in DOMAIN solution |->
             IF data.vessels[k].port_id = p /\ solution[k].t = t
             THEN solution[k].flow[j] ELSE 0 ])

\* constraint 6, port capacity
PortCapacityHolds(solution, time_horizon) ==
  \A i \in DOMAIN data.ports, t \in 1..time_horizon :
    SumSeq([ j \in DOMAIN data.plants |->
               FlowAt(solution, data.ports[i].port_id, j, t) ])
      <= data.ports[i].daily_capacity_mt

\* constraints 7 and 8, rake capacity and availability
RakeAvailabilityHolds(solution, time_horizon) ==
  \A i \in DOMAIN data.ports, t \in 1..time_horizon :
    SumSeq([ j \in DOMAIN data.plants |->
               rakes_required(FlowAt(solution, data.ports[i].port_id, j, t),
                              MILP_rake_capacity_mt) ])
      <= data.ports[i].rakes_available_per_day

\* the feasible solutions of the model build_milp_model returns
build_milp_model(time_horizon) ==
  { solution \in SchedulesFrom(1, time_horizon) :
      /\ PortCapacityHolds(solution, time_horizon)
      /\ RakeAvailabilityHolds(solution, time_horizon) }

\* the objective: port handling, rail transport and (constraint 10) demurrage
objective(solution) ==
  SumSeq([ k \in DOMAIN solution |->
             LET vessel == data.vessels[k]
                 effective_delay ==
                   Max2(0, (2 * solution[k].t + MILP_predicted_delay_days(vessel.vessel_id))
                             - vessel.eta_day)
             IN SumSeq([ j \in DOMAIN data.plants |->
                           solution[k].flow[j]
                             * (data_port_lookup(vessel.port_id).handling_cost_per_mt
                                + MILP_get_rail_cost(vessel.port_id,
                                                     data.plants[j].plant_id)) ])
                + (vessel.demurrage_rate * effective_delay) \div 2 ])

\* the solutions of least objective
optimal_solutions(feasible) ==
  { solution \in feasible :
      \A other \in feasible : objective(solution) <= objective(other) }

\* _extract_assignments, for the vessels from position k on
RECURSIVE ExtractFrom(_, _)
ExtractFrom(k, solution) ==
  IF k > Len(solution) THEN << >>
  ELSE LET vessel == data.vessels[k]
           flowing == SelectSeq([ j \in DOMAIN data.plants |-> j ],
                                LAMBDA j : solution[k].flow[j] > 0)
       IN [ i \in DOMAIN flowing |->
              extracted_assignment(vessel.vessel_id, vessel.port_id,
                                   data.plants[flowing[i]].plant_id,
                                   solution[k].t, solution[k].flow[flowing[i]]) ]
          \o ExtractFrom(k + 1, solution)

_extract_assignments(solution) == ExtractFrom(1, solution)

\* the mishandling where the exception leaves solve_milp
no_except(e) ==
  [ raised |-> e, result |-> << >> ]

\* the handler `except Exception as e` of solve_milp
except_Exception(e) ==
  [ raised |-> NoFault,
    result |-> [ status |-> "Error", error |-> e, assignments |-> << >> ] ]

\* build_milp_model is called inside the try block
BuildMilpModel ==
  /\ milp.pc = "idle"
  /\ \/ milp' = [ milp EXCEPT !.pc = "built",
                                !.prob = build_milp_model(milp.time_horizon) ]
     \/ \E e \in BuildFaultChoices :
          milp' = [ milp EXCEPT !.pc = "done",
                                !.fault = e,
                                !.raised = except_Exception(e).raised,
                                !.result = except_Exception(e).result ]
  /\ UNCHANGED << simulator, annealing, genetic, pricing, seeding >>

\* the solver object: CBC unless Gurobi is asked for and its command object can be
\* made
SetSolver ==
  /\ milp.pc = "built"
  /\ \E solver \in IF milp.solver_name = "GUROBI" THEN {"GUROBI_CMD", "PULP_CBC_CMD"}
                     ELSE {"PULP_CBC_CMD"} :
       milp' = [ milp EXCEPT !.pc = "ready", !.solver = solver ]
  /\ UNCHANGED << simulator, annealing, genetic, pricing, seeding >>

\* prob.solve(solver) proves an optimum or infeasibility
SolveToEnd ==
  /\ milp.pc = "ready"
  /\ IF milp.prob = {}
     THEN milp' = [ milp EXCEPT !.pc = "solved", !.prob_status = "Infeasible" ]
     ELSE \E solution \in optimal_solutions(milp.prob) :
            milp' = [ milp EXCEPT !.pc = "solved",
                                  !.prob_status = "Optimal",
                                  !.values = solution ]
  /\ UNCHANGED << simulator, annealing, genetic, pricing, seeding >>

\* prob.solve(solver) stops at timeLimit, holding a feasible solution or none.  With
\* an incumbent PuLP reports LpStatusOptimal (2.x) or LpStatusNotSolved (1.x).
SolveToTimeLimit ==
  /\ milp.pc = "ready"
  /\ \/ milp' = [ milp EXCEPT !.pc = "solved",
                                !.stopped_on_time = TRUE,
                                !.prob_status = "Not Solved" ]
     \/ \E incumbent \in milp.prob, prob_status \in {"Optimal", "Not Solved"} :
          milp' = [ milp EXCEPT !.pc = "solved",
                                !.stopped_on_time = TRUE,
                                !.values = incumbent,
                                !.prob_status = prob_status ]
  /\ UNCHANGED << simulator, annealing, genetic, pricing, seeding >>

\* prob.solve(solver) raises
SolveFault ==
  /\ milp.pc = "ready"
  /\ \E e \in SolveFaultChoices(milp.solver) :
       milp' = [ milp EXCEPT !.pc = "done",
                             !.fault = e,
                             !.raised = except_Exception(e).raised,
                             !.result = except_Exception(e).result ]
  /\ UNCHANGED << simulator, annealing, genetic, pricing, seeding >>

\* the results dict after the solve
MilpReturn ==
  /\ milp.pc = "solved"
  /\ milp' =
       [ milp EXCEPT
           !.pc = "done",
           !.result =
              [ status |-> milp.prob_status,
                objective_value |->
                  IF milp.prob_status = "Optimal" THEN objective(milp.values) ELSE None,
                assignments |->
                  IF milp.prob_status = "Optimal" THEN _extract_assignments(milp.values)
                  ELSE << >>,
                solver_used |-> milp.solver_name ] ]
  /\ UNCHANGED << simulator, annealing, genetic, pricing, seeding >>

\* the arguments of the constructor and of a call of solve_milp
InitMilp ==
  /\ NoSimulator
  /\ \E time_horizon \in TimeHorizonChoices, solver_name \in SolverNameChoices :
       milp =
         [ pc |-> "idle",
           time_horizon |-> time_horizon,
           solver_name |-> solver_name,
           prob |-> {},
           solver |-> "none",
           prob_status |-> "Not Solved",
           values |-> << >>,
           stopped_on_time |-> FALSE,
           fault |-> NoFault,
           raised |-> NoFault,
           result |-> << >> ]
  /\ annealing = NotCalled
  /\ genetic = NotCalled
  /\ pricing = NotCalled
  /\ seeding = NotCalled

NextMilp ==
  \/ BuildMilpModel
  \/ SetSolver
  \/ SolveToEnd
  \/ SolveToTimeLimit
  \/ SolveFault
  \/ MilpReturn

SpecMilp == InitMilp /\ [][NextMilp]_vars

----------------------------------------------------------------------------
(* C14: ports and grades of the exact solver's assignments                         *)

\* C14: every assignment of a solution solve_milp returns has its port among the
\* vessel's allowed ports and a plant whose quality_requirements is the vessel's
\* cargo_grade.
C14_AllowedPortAndGrade ==
  milp.pc = "done" /\ milp.fault = NoFault =>
    \A i \in DOMAIN milp.result.assignments :
      LET assignment == milp.result.assignments[i]
          vessel == data_vessel_lookup(assignment.vessel_id)
          allowed_ports == vessel_allowed_ports(assignment.vessel_id)
      IN /\ \E k \in DOMAIN allowed_ports : allowed_ports[k] = assignment.port_id
         /\ data_plant_lookup(assignment.plant_id).quality_requirements
              = vessel.cargo_grade

----------------------------------------------------------------------------
(* C15: faults of the exact solver                                                 *)

\* C15: solve_milp lets no exception out: after an exception while building or
\* solving, it returns status 'Error' with the exception's message and no
\* assignments, and every result it returns has a status field.
C15_NoFaultPropagates ==
  milp.pc = "done" =>
    /\ milp.raised = NoFault
    /\ "status" \in DOMAIN milp.result
    /\ milp.fault # NoFault =>
         /\ milp.result.status = "Error"
         /\ milp.result.error = milp.fault
         /\ milp.result.error # ""
         /\ milp.result.assignments = << >>

\* solve_milp has returned after a fault of the solver, and after a fault of the
\* model building
C15_Witness ==
  /\ milp.pc = "done"
  /\ milp.fault \in SolveFaultChoices("GUROBI_CMD")
  /\ milp.prob # {}
  /\ milp.result.status = "Error"

----------------------------------------------------------------------------
(* C16: the exact solver at its time limit                                         *)

\* C16: when the solver stops at the time limit holding a feasible solution,
\* solve_milp returns that solution's assignments and objective value with the
\* status TimeLimited.
C16_TimeLimitedFeasible ==
  milp.pc = "done" /\ milp.stopped_on_time /\ milp.values # << >> =>
    /\ milp.result.status = "TimeLimited"
    /\ milp.result.assignments = _extract_assignments(milp.values)
    /\ milp.result.objective_value = objective(milp.values)

----------------------------------------------------------------------------
(* Pricing one list of assignments with CostCalculator, with the exact solver's    *)
(* _calculate_assignment_cost and with the heuristic's _calculate_total_cost.      *)
(* Money is whole; berth times are day values held in half-days.                   *)

\* the assignments priced: well-formed ones, and ones with an unknown port, an
\* unknown plant, a plant without a rail link from the port, or cargo_mt <= 0
PricedAssignmentChoices ==
  { [ vessel_id |-> vessel_id,
      port_id |-> port_id,
      plant_id |-> plant_id,
      time_period |-> CeilDay(data_vessel_lookup(vessel_id).eta_day),
      cargo_mt |-> cargo_mt,
      actual_berth_time |-> data_vessel_lookup(vessel_id).eta_day + late,
      planned_berth_time |-> data_vessel_lookup(vessel_id).eta_day,
      rakes_required |-> rakes_required(cargo_mt, MILP_rake_capacity_mt) ] :
      vessel_id \in DataVesselIds,
      port_id \in DataPortIds \cup {"PX"},
      plant_id \in DataPlantIds \cup {"LX"},
      cargo_mt \in {3000, 0, -1000},
      late \in {0, 3} }

\* a well-formed assignment of the baseline
WellFormedAssignment == create_baseline_solution.assignments[1]

\* the lists priced: one assignment, alone or followed by a well-formed one
PricedListChoices ==
  { << assignment >> : assignment \in PricedAssignmentChoices }
    \cup { << assignment, WellFormedAssignment >> : assignment \in PricedAssignmentChoices }

\* the rail table has a row for the pair
HasRailLink(port_id, plant_id) ==
  \E i \in DOMAIN data.rail_costs :
    data.rail_costs[i].port_id = port_id /\ data.rail_costs[i].plant_id = plant_id

\* rail_costs_df['cost_per_mt'].mean()
mean_cost_per_mt ==
  SumSeq([ i \in DOMAIN data.rail_costs |-> data.rail_costs[i].cost_per_mt ])
    \div Len(data.rail_costs)

\* CostCalculator.calculate_demurrage_cost: the difference of the berth times is
\* divided by 24 before it is multiplied by the rate (half-days here, so by 48)
calculate_demurrage_cost(vessel_data, actual_berth_time, planned_berth_time) ==
  LET delay_hours == Max2(0, actual_berth_time - planned_berth_time)
  IN (delay_hours * vessel_data.demurrage_rate) \div 48

\* CostCalculator.calculate_port_handling_cost
calculate_port_handling_cost(cargo_mt, port_data) ==
  cargo_mt * port_data.handling_cost_per_mt

\* CostCalculator.calculate_rail_transport_cost
calculate_rail_transport_cost(cargo_mt, rail_cost_per_mt) ==
  cargo_mt * rail_cost_per_mt

\* one pass of the loop of calculate_total_logistics_cost: what the assignment adds
\* to the costs; `continue` when the ports table has no row for its port
CalculatorLine(assignment) ==
  IF assignment.port_id \notin DataPortIds
  THEN [ skipped |-> TRUE, port_handling |-> 0, rail_transport |-> 0, demurrage |-> 0 ]
  ELSE LET rail_cost_per_mt ==
             IF HasRailLink(assignment.port_id, assignment.plant_id)
             THEN MILP_get_rail_cost(assignment.port_id, assignment.plant_id)
             ELSE IF data.rail_costs # << >> THEN mean_cost_per_mt ELSE 0
       IN [ skipped |-> FALSE,
            port_handling |->
              calculate_port_handling_cost(assignment.cargo_mt,
                                           data_port_lookup(assignment.port_id)),
            rail_transport |->
              calculate_rail_transport_cost(assignment.cargo_mt, rail_cost_per_mt),
            demurrage |->
              calculate_demurrage_cost(data_vessel_lookup(assignment.vessel_id),
                                       assignment.actual_berth_time,
                                       assignment.planned_berth_time) ]

\* CostCalculator.calculate_total_logistics_cost
calculate_total_logistics_cost(assignment_list) ==
  LET lines == [ i \in DOMAIN assignment_list |-> CalculatorLine(assignment_list[i]) ]
      port_handling == SumSeq([ i \in DOMAIN lines |-> lines[i].port_handling ])
      rail_transport == SumSeq([ i \in DOMAIN lines |-> lines[i].rail_transport ])
      demurrage == SumSeq([ i \in DOMAIN lines |-> lines[i].demurrage ])
  IN [ port_handling |-> port_handling,
       rail_transport |-> rail_transport,
       demurrage |-> demurrage,
       total |-> port_handling + rail_transport + demurrage ]

\* port_cost, rail_cost and demurrage_cost of one pass of the loop of
\* MILPOptimizer._calculate_assignment_cost
MilpLine(assignment) ==
  [ port_cost |->
      data_port_lookup(assignment.port_id).handling_cost_per_mt * assignment.cargo_mt,
    rail_cost |->
      MILP_get_rail_cost(assignment.port_id, assignment.plant_id) * assignment.cargo_mt,
    demurrage_cost |-> MILP_demurrage_cost(assignment) ]

\* port_cost, rail_cost and demurrage_cost of one pass of the loop of
\* HeuristicOptimizer._calculate_total_cost
HeuristicLine(assignment) ==
  LET port_id == RepairedPort(assignment)
      cargo_mt == assignment.cargo_mt
  IN [ port_cost |->
         data_port_lookup(port_id).handling_cost_per_mt * cargo_mt
         + (IF port_id # primary_port_map(assignment.vessel_id)
            THEN cargo_mt * secondary_port_penalty_per_mt ELSE 0),
       rail_cost |-> Heuristic_get_rail_cost(port_id, assignment.plant_id) * cargo_mt,
       demurrage_cost |-> Heuristic_demurrage_cost(assignment) ]

NotPriced == [ called |-> FALSE ]

\* CostCalculator.calculate_total_logistics_cost(assignments, ...)
CalculateTotalLogisticsCost ==
  /\ pricing.pc = "pricing"
  /\ ~pricing.calculator.called
  /\ pricing' =
       [ pricing EXCEPT
           !.calculator =
              [ called |-> TRUE,
                raised |-> NoFault,
                lines |-> [ i \in DOMAIN pricing.assignments |->
                              CalculatorLine(pricing.assignments[i]) ],
                costs |-> calculate_total_logistics_cost(pricing.assignments) ] ]
  /\ UNCHANGED << simulator, annealing, genetic, milp, seeding >>

\* MILPOptimizer._calculate_assignment_cost(assignments): self.port_lookup[port_id]
\* raises KeyError at the first assignment whose port is unknown
CalculateAssignmentCost ==
  /\ pricing.pc = "pricing"
  /\ ~pricing.exact.called
  /\ LET unknown == { i \in DOMAIN pricing.assignments :
                        pricing.assignments[i].port_id \notin DataPortIds }
     IN pricing' =
          [ pricing EXCEPT
              !.exact =
                 IF unknown # {}
                 THEN [ called |-> TRUE, raised |-> "KeyError",
                        lines |-> [ i \in { j \in DOMAIN pricing.assignments :
                                               \A u \in unknown : j < u } |->
                                      MilpLine(pricing.assignments[i]) ],
                        total_cost |-> None ]
                 ELSE [ called |-> TRUE, raised |-> NoFault,
                        lines |-> [ i \in DOMAIN pricing.assignments |->
                                      MilpLine(pricing.assignments[i]) ],
                        total_cost |-> _calculate_assignment_cost(pricing.assignments) ] ]
  /\ UNCHANGED << simulator, annealing, genetic, milp, seeding >>

\* HeuristicOptimizer._calculate_total_cost(assignments): an unknown port is replaced
\* by the vessel's primary port
CalculateTotalCost ==
  /\ pricing.pc = "pricing"
  /\ ~pricing.heuristic.called
  /\ pricing' =
       [ pricing EXCEPT
           !.heuristic =
              [ called |-> TRUE,
                raised |-> NoFault,
                lines |-> [ i \in DOMAIN pricing.assignments |->
                              HeuristicLine(pricing.assignments[i]) ],
                total_cost |-> _calculate_total_cost(pricing.assignments) ],
           !.assignments = RepairPorts(pricing.assignments) ]
  /\ UNCHANGED << simulator, annealing, genetic, milp, seeding >>

\* the list of assignments handed to the cost functions
InitPricing ==
  /\ NoSimulator
  /\ \E assignment_list \in PricedListChoices :
       pricing =
         [ pc |-> "pricing",
           assignments |-> assignment_list,
           given |-> assignment_list,
           calculator |-> NotPriced,
           exact |-> NotPriced,
           heuristic |-> NotPriced ]
  /\ annealing = NotCalled
  /\ genetic = NotCalled
  /\ milp = NotCalled
  /\ seeding = NotCalled

NextPricing ==
  \/ CalculateTotalLogisticsCost
  \/ CalculateAssignmentCost
  \/ CalculateTotalCost

SpecPricing == InitPricing /\ [][NextPricing]_vars

----------------------------------------------------------------------------
(* C18: malformed assignments in a cost query                                      *)

\* cargo_mt <= 0, or a port or plant that is not in the tables
Malformed(assignment) ==
  \/ assignment.cargo_mt <= 0
  \/ assignment.port_id \notin DataPortIds
  \/ assignment.plant_id \notin DataPlantIds

\* C18: CostCalculator.calculate_total_logistics_cost, given a list with a malformed
\* assignment (cargo_mt <= 0, unknown port or plant), ends in an error and not in a
\* cost.
C18_MalformedRejected ==
  /\ pricing.pc = "pricing"
  /\ pricing.calculator.called
  /\ ~pricing.heuristic.called
  /\ \E i \in DOMAIN pricing.assignments : Malformed(pricing.assignments[i])
  => pricing.calculator.raised # NoFault

----------------------------------------------------------------------------
(* C19: the rail rate of a pair without a rail link                                *)

\* C19: wherever a cost function has priced an assignment whose (port, plant) pair
\* has no row in the rail table, the rail cost is cargo_mt times the mean
\* cost_per_mt of the table; for the exact solver's, the heuristic's and
\* CostCalculator's cost functions.
C19_RailFallbackIsMean ==
  pricing.pc = "pricing" =>
    /\ pricing.exact.called =>
         \A i \in DOMAIN pricing.exact.lines :
           ~HasRailLink(pricing.given[i].port_id, pricing.given[i].plant_id) =>
             pricing.exact.lines[i].rail_cost
               = pricing.given[i].cargo_mt * mean_cost_per_mt
    /\ pricing.heuristic.called =>
         \A i \in DOMAIN pricing.heuristic.lines :
           ~HasRailLink(RepairedPort(pricing.given[i]), pricing.given[i].plant_id) =>
             pricing.heuristic.lines[i].rail_cost
               = pricing.given[i].cargo_mt * mean_cost_per_mt
    /\ pricing.calculator.called =>
         \A i \in DOMAIN pricing.calculator.lines :
           /\ ~pricing.calculator.lines[i].skipped
           /\ ~HasRailLink(pricing.assignments[i].port_id, pricing.given[i].plant_id)
           => pricing.calculator.lines[i].rail_transport
                = pricing.given[i].cargo_mt * mean_cost_per_mt

----------------------------------------------------------------------------
(* C20: the demurrage of the three cost functions                                  *)

\* max(0, actual - planned) days times the vessel's demurrage_rate
SharedDemurrage(assignment) ==
  (Max2(0, assignment.actual_berth_time - assignment.planned_berth_time)
     * data_vessel_lookup(assignment.vessel_id).demurrage_rate) \div 2

\* C20: for every assignment priced, CostCalculator.calculate_demurrage_cost, the
\* exact solver's cost function and the heuristic's cost function all give the
\* demurrage max(0, actual - planned) days times the vessel's demurrage_rate.
C20_SharedDemurrage ==
  pricing.pc = "pricing" =>
    /\ pricing.exact.called =>
         \A i \in DOMAIN pricing.exact.lines :
           pricing.exact.lines[i].demurrage_cost = SharedDemurrage(pricing.given[i])
    /\ pricing.heuristic.called =>
         \A i \in DOMAIN pricing.heuristic.lines :
           pricing.heuristic.lines[i].demurrage_cost = SharedDemurrage(pricing.given[i])
    /\ pricing.calculator.called =>
         \A i \in DOMAIN pricing.calculator.lines :
           ~pricing.calculator.lines[i].skipped =>
             pricing.calculator.lines[i].demurrage = SharedDemurrage(pricing.given[i])

----------------------------------------------------------------------------
(* C23: the berthing guard                                                         *)

\* the vessels whose status is berthed and whose port is pid
BerthedAt(pid) ==
  { vid \in DOMAIN vessel_states :
      vessel_states[vid].status = "berthed" /\ vessel_states[vid].port_id = pid }

\* the berth of pid is free when the berth operations reach its queue: it has no
\* current vessel, or its current vessel empties and departs in this very step
BerthFreeInStep(pid) ==
  \/ port_states[pid].current_vessel = NoId
  \/ vessel_states'[port_states[pid].current_vessel].status = "departed"

\* C23: a waiting vessel becomes berthed only in the berth operations of a step in
\* which its port's berth is free, it is the head of the port's queue and the step
\* has reached its planned berth step, and then it does (also in the step in which
\* the berthed vessel empties); otherwise the queue is left as it is.  So a port has
\* at most one berthed vessel, its current vessel, and a queue only loses its head
\* and only grows at its end.
C23_BerthingGuard ==
  /\ [](\A pid \in DOMAIN port_states :
          /\ Cardinality(BerthedAt(pid)) <= 1
          /\ BerthedAt(pid) \subseteq {port_states[pid].current_vessel})
  /\ [][ run' = run =>
          /\ \A vid \in DOMAIN vessel_states :
               LET pid == vessel_states[vid].port_id
                   queue == port_states[pid].vessels_queue
                   becomes_berthed ==
                     /\ vessel_states[vid].status # "berthed"
                     /\ vessel_states'[vid].status = "berthed"
                   eligible ==
                     /\ pc = "berth"
                     /\ queue # << >>
                     /\ Head(queue) = vid
                     /\ BerthFreeInStep(pid)
                     /\ time_step >= planned_step(vessel_states[vid])
               IN /\ becomes_berthed <=> eligible
                  /\ becomes_berthed =>
                       /\ vessel_states[vid].status = "waiting"
                       /\ port_states'[pid].current_vessel = vid
                       /\ port_states'[pid].vessels_queue = Tail(queue)
                       /\ vessel_states'[vid].berth_time_step = time_step
          /\ \A pid \in DOMAIN port_states :
               LET queue == port_states[pid].vessels_queue
                   after == port_states'[pid].vessels_queue
               IN \/ pc = "berth" /\ after = queue
                  \/ pc = "berth" /\ queue # << >> /\ after = Tail(queue)
                  \/ /\ pc # "berth"
                     /\ Len(after) >= Len(queue)
                     /\ SubSeq(after, 1, Len(queue)) = queue ]_vars

\* the second vessel of a queue is berthed in the step in which the vessel berthed
\* before it departs, after it has waited behind it
C23_Witness ==
  /\ pc = "rake_assign"
  /\ \E vid \in DOMAIN vessel_states, other \in DOMAIN vessel_states :
       /\ vid # other
       /\ vessel_states[vid].port_id = vessel_states[other].port_id
       /\ vessel_states[other].status = "departed"
       /\ vessel_states[vid].status = "berthed"
       /\ vessel_states[vid].berth_time_step = time_step
       /\ vessel_states[other].departure_time_step = time_step

----------------------------------------------------------------------------
(* Replay of a plan that names another port than the vessels table                 *)

\* the port the plan names for V1: the other port than the port_id of its row in
\* the vessels table (a secondary port, as the heuristic stages may choose)
PlanAtSecondaryPort(vessels, delay1, planned1) ==
  [ Plan(vessels, delay1, planned1) EXCEPT ![1].port_id = "P2" ]

\* the instance after construction, to be run with such a plan
InitReplay ==
  /\ time_step_hours \in StepHoursChoices
  /\ simulation_days \in (MaxDays - 1)..MaxDays
  /\ \E cap1 \in CapacityChoices, rakes1 \in RakeChoices :
       ports_df = PortsTable(cap1, rakes1)
  /\ \E eta1 \in EtaChoices, port2 \in PortIds, grade2 \in Grades :
       vessels_df = VesselsTable(eta1, port2, grade2)
  /\ \E delay1 \in DelayChoices, planned1 \in PlannedChoices :
       assignments = PlanAtSecondaryPort(vessels_df, delay1, planned1)
  /\ pc = "idle"
  /\ run = 0
  /\ time_step = 0
  /\ cursor = NoCursor
  /\ current_time = 0
  /\ total_time_steps = 0
  /\ vessel_states = << >>
  /\ port_states = << >>
  /\ plant_states = << >>
  /\ rake_states = << >>
  /\ cost_components =
       [ demurrage |-> 0, port_handling |-> 0, rail_transport |-> 0,
         storage |-> 0, ocean_freight |-> 0, rerouting_penalty |-> 0 ]
  /\ rake_trip_count = 0
  /\ simulation_log = << >>
  /\ results = << >>
  /\ handled_at_reset = << >>
  /\ annealing = NotCalled
  /\ genetic = NotCalled
  /\ milp = NotCalled
  /\ pricing = NotCalled
  /\ seeding = NotCalled

SpecReplay == InitReplay /\ [][Next]_vars

----------------------------------------------------------------------------
(* C26: the port an assignment is replayed at                                      *)

\* the port the plan names for a vessel (each vessel has one assignment)
PlannedPort(vid) ==
  assignments[CHOOSE i \in DOMAIN assignments : assignments[i].vessel_id = vid].port_id

\* C26: every arrival, berthing and departure of a vessel is logged at the port its
\* assignment names, every inventory batch of its cargo lies at that port, and every
\* rake dispatched for it leaves from that port.
C26_ReplayAtPlannedPort ==
  /\ \A k \in DOMAIN simulation_log :
       LET e == simulation_log[k]
       IN /\ e.event \in {"vessel_arrival", "vessel_berth", "vessel_departure"} =>
               e.port_id = PlannedPort(e.vessel_id)
          /\ e.event = "rake_dispatch" => e.source_port = PlannedPort(e.vessel_id)
  /\ \A pid \in DOMAIN port_states :
       \A b \in DOMAIN port_states[pid].inventory :
         pid = PlannedPort(port_states[pid].inventory[b].vessel_id)

----------------------------------------------------------------------------
(* src/seed_utils.py: the module global _CURRENT_SEED and the state of Python's    *)
(* random, and run_genetic_algorithm drawing from it.  The generator is held as    *)
(* the seed it was last given and the number of draws made since; a draw is a      *)
(* fixed function of the two.  Seeds are kept to 16 bits (2 ** 32 in the source).  *)

MaxSeedCalls == 3

DEFAULT_SEED == 2025

SeedModulus == 2 ^ 16

\* the seed argument of set_global_seed
SeedArgChoices == {None, 7, 42}

\* LOGISTICS_RANDOM_SEED in the environment, or unset
EnvSeedChoices == {None, 11}

\* the phase labels and offsets of reseed_for_phase
PhaseChoices == {"optimization", "simulation"}

OffsetChoices == {0, 1}

\* the interpreter's string hash salt (PYTHONHASHSEED, random unless set at start)
HashSaltChoices == {1, 2}

\* the seed random starts with, from the operating system's entropy
EntropyChoices == {3, 5}

\* resolve_seed: the argument, else the environment, else DEFAULT_SEED
resolve_seed(seed, env_seed) ==
  IF seed # None THEN seed
  ELSE IF env_seed # None THEN env_seed
  ELSE DEFAULT_SEED

\* hash((phase, base)): a signed value that depends on the label, on the salt of the
\* process and on base
tuple_hash(phase, base, hash_salt) ==
  LET str_hash == (IF phase = "optimization" THEN 7919 ELSE 104729) * hash_salt
      mixed == (str_hash * 31 + base * 17) % SeedModulus
  IN IF mixed >= SeedModulus \div 2 THEN mixed - SeedModulus ELSE mixed

\* abs(x)
Abs(x) == IF x < 0 THEN 0 - x ELSE x

\* the seed reseed_for_phase derives from base
derived_seed(phase, base, offset, hash_salt) ==
  (Abs(tuple_hash(phase, base, hash_salt)) + offset) % SeedModulus

\* random.seed(resolved)
seeded_rng(resolved) == [ seed |-> resolved, consumed |-> 0 ]

\* the next value of the generator, as a percentage of its range
draw(rng) == (rng.seed * 37 + rng.consumed * 61 + 11) % 100

advance(rng) == [ rng EXCEPT !.consumed = @ + 1 ]

\* _create_individual drawing from the generator, for the vessels from position k
\* on: random.choice of the plant, random.random() < 0.15 and random.choice for the
\* port of a vessel with several ports, random.uniform for the berth day
RECURSIVE CreateFrom(_, _, _)
CreateFrom(k, individual, rng) ==
  IF k > Len(data.vessels) THEN [ individual |-> individual, rng |-> rng ]
  ELSE LET vessel == data.vessels[k]
           allowed_ports == vessel_allowed_ports(vessel.vessel_id)
           plants == compatible_plants(vessel.cargo_grade)
       IN IF plants = << >> THEN CreateFrom(k + 1, individual, rng)
          ELSE LET plant_id == plants[1 + (draw(rng) % Len(plants))]
                   rng1 == advance(rng)
                   explores == Len(allowed_ports) > 1 /\ draw(rng1) < 15
                   rng2 == IF Len(allowed_ports) > 1 THEN advance(rng1) ELSE rng1
                   port_id == IF explores
                              THEN allowed_ports[1 + (draw(rng2) % Len(allowed_ports))]
                              ELSE allowed_ports[1]
                   rng3 == IF explores THEN advance(rng2) ELSE rng2
                   berth_day == vessel.eta_day + (IF draw(rng3) < 50 THEN 0 ELSE 3)
               IN CreateFrom(k + 1,
                             Append(individual,
                                    << vessel.vessel_id, port_id, plant_id, berth_day >>),
                             advance(rng3))

\* set_global_seed(seed), called by the user
SetGlobalSeed ==
  /\ seeding.pc = "ready"
  /\ seeding.calls < MaxSeedCalls
  /\ \E seed \in SeedArgChoices :
       LET resolved == resolve_seed(seed, seeding.env_seed)
       IN seeding' =
            [ seeding EXCEPT
                !.calls = @ + 1,
                !.rng = seeded_rng(resolved),
                !._CURRENT_SEED = resolved,
                !.root = resolved,
                !.last_call = [ name |-> "set_global_seed", phase |-> NoId, offset |-> 0,
                                returned |-> resolved ] ]
  /\ UNCHANGED << simulator, annealing, genetic, milp, pricing >>

\* reseed_for_phase(phase, offset=offset): the seed is derived from
\* get_current_seed() and applied with set_global_seed
ReseedForPhase ==
  /\ seeding.pc = "ready"
  /\ seeding.calls < MaxSeedCalls
  /\ \E phase \in PhaseChoices, offset \in OffsetChoices :
       LET base == seeding._CURRENT_SEED
           derived == derived_seed(phase, base, offset, seeding.hash_salt)
           resolved == resolve_seed(derived, seeding.env_seed)
       IN seeding' =
            [ seeding EXCEPT
                !.calls = @ + 1,
                !.rng = seeded_rng(resolved),
                !._CURRENT_SEED = resolved,
                !.last_call = [ name |-> "reseed_for_phase", phase |-> phase,
                                offset |-> offset, returned |-> resolved ] ]
  /\ UNCHANGED << simulator, annealing, genetic, milp, pricing >>

\* run_genetic_algorithm(population_size=1, generations=0): the population is one
\* individual drawn from random, it is evaluated and is the best; rng_seed is
\* get_current_seed()
SeededGeneticRun ==
  /\ seeding.pc = "ready"
  /\ seeding.calls < MaxSeedCalls
  /\ LET created == CreateFrom(1, << >>, seeding.rng)
     IN seeding' =
          [ seeding EXCEPT
              !.calls = @ + 1,
              !.rng = created.rng,
              !.last_call = [ name |-> "run_genetic_algorithm", phase |-> NoId,
                              offset |-> 0, returned |-> seeding._CURRENT_SEED ],
              !.runs = Append(@, [ status |-> "GA_Optimized",
                                   objective_value |->
                                     _evaluate_individual(created.individual),
                                   generations |-> 0,
                                   population_size |-> 1,
                                   rng_seed |-> seeding._CURRENT_SEED ]) ]
  /\ UNCHANGED << simulator, annealing, genetic, milp, pricing >>

\* the interpreter after `import seed_utils`
InitSeeding ==
  /\ NoSimulator
  /\ \E hash_salt \in HashSaltChoices, env_seed \in EnvSeedChoices,
        entropy \in EntropyChoices :
       seeding =
         [ pc |-> "ready",
           calls |-> 0,
           hash_salt |-> hash_salt,
           env_seed |-> env_seed,
           rng |-> seeded_rng(entropy),
           _CURRENT_SEED |-> DEFAULT_SEED,
           root |-> None,
           last_call |-> [ name |-> "import", phase |-> NoId, offset |-> 0,
                           returned |-> None ],
           runs |-> << >> ]
  /\ annealing = NotCalled
  /\ genetic = NotCalled
  /\ milp = NotCalled
  /\ pricing = NotCalled

NextSeeding ==
  \/ SetGlobalSeed
  \/ ReseedForPhase
  \/ SeededGeneticRun

SpecSeeding == InitSeeding /\ [][NextSeeding]_vars

----------------------------------------------------------------------------
(* C22: reproducibility of the evolutionary stage                                  *)

\* C22: two runs of run_genetic_algorithm on the same tables, with the same
\* population size and generation count and the same RNG seed, return the same best
\* objective value.
C22_SeedReproducible ==
  \A i \in DOMAIN seeding.runs, j \in DOMAIN seeding.runs :
    /\ seeding.runs[i].rng_seed = seeding.runs[j].rng_seed
    /\ seeding.runs[i].population_size = seeding.runs[j].population_size
    /\ seeding.runs[i].generations = seeding.runs[j].generations
    => seeding.runs[i].objective_value = seeding.runs[j].objective_value

----------------------------------------------------------------------------
(* C25: the seed of a phase                                                        *)

\* C25: after set_global_seed(root), the seed reseed_for_phase(phase, offset) applies
\* is the one derived from root, the phase label and the offset, whatever calls were
\* made in between, and get_current_seed() is the seed last applied.
C25_PhaseIndependentSeed ==
  seeding.pc = "ready" =>
    /\ seeding.last_call.name \in {"set_global_seed", "reseed_for_phase"} =>
         seeding._CURRENT_SEED = seeding.last_call.returned
    /\ seeding.last_call.name = "reseed_for_phase" /\ seeding.root # None =>
         seeding.last_call.returned =
           derived_seed(seeding.last_call.phase, seeding.root,
                        seeding.last_call.offset, seeding.hash_salt)

----------------------------------------------------------------------------
(* C29: the event log of a call                                                    *)

\* C29: every run_simulation call starts from an empty event log and returns the log
\* it has built, so the simulation_log of a call's results holds the events of that
\* call only, also when the simulator instance is used again.
C29_FreshLogPerRun ==
  [][ /\ run' # run => simulation_log' = << >>
      /\ Len(results') > Len(results) =>
           results'[Len(results')].simulation_log = simulation_log ]_vars

----------------------------------------------------------------------------
(* C27: the seeded individual                                                      *)

\* C27: the individual made from the seed's assignments converts back to assignments
\* of the same port, plant, scheduled day and actual berth time, so the seeded
\* individual costs what the refiner's cost function gives for the seed's assignments.
C27_SeedRoundTrip ==
  genetic.pc = "select" /\ genetic.generation = 0 /\ genetic.seed_solution # << >> =>
    LET seed == genetic.seed_solution
        seeded_individual == genetic.population[1]
        back == _individual_to_assignments(seeded_individual)
    IN /\ Len(back) = Len(seed)
       /\ \A i \in DOMAIN seed :
            /\ back[i].port_id = seed[i].port_id
            /\ back[i].plant_id = seed[i].plant_id
            /\ back[i].scheduled_day = seed[i].scheduled_day
            /\ back[i].actual_berth_time = seed[i].actual_berth_time
       /\ _evaluate_individual(seeded_individual) = _calculate_total_cost(seed)

----------------------------------------------------------------------------
(* C28: the inventory of a port                                                    *)

\* the batches of a port's inventory that are not of the grade
OtherGrades(inventory, grade) == SelectSeq(inventory, LAMBDA b : b.grade # grade)

----------------------------------------------------------------------------
(* MILPOptimizer.create_baseline_solution as a loop over a vessels table that      *)
(* varies: the table of data with the ETAs and the port and grade of V2 drawn, and *)
(* the delays the constructor got from the ETA predictor.  Days are in half-days.  *)

\* eta_day of a vessel
BaselineEtaChoices == {0, 1, 2, 5}

\* the grade of V2; no plant takes G9
BaselineGradeChoices == {"G1", "G2", "G9"}

\* max(0.0, delay_hours / 24.0)
BaselineDelayChoices == {0, 1, 4}

\* the orders of the vessel rows
RowOrders(vessels) ==
  { order \in [ DOMAIN vessels -> DOMAIN vessels ] :
      \A i, j \in DOMAIN vessels : i # j => order[i] # order[j] }

\* sort_values('eta_day'): the orders of ascending eta_day; rows of equal eta_day
\* come in either order
sort_values_eta_day(vessels) ==
  { order \in RowOrders(vessels) :
      \A i, j \in DOMAIN order :
        i < j => vessels[order[i]].eta_day <= vessels[order[j]].eta_day }

\* variant of fcfs_berth_time that berths on arrival, busy port or not
berth_on_arrival(eta, predicted_delay, available_time) ==
  eta + predicted_delay

\* actual_berth_time = max(arrival_with_delay, available_time)
fcfs_berth_time(eta, predicted_delay, available_time) ==
  Max2(eta + predicted_delay, available_time)

\* the call: the port_utilization dict and the assignments are empty and the vessels
\* are sorted
CreateBaseline ==
  /\ milp.pc = "idle"
  /\ \E order \in sort_values_eta_day(milp.vessels) :
       milp' = [ milp EXCEPT !.pc = "loop", !.vessels_sorted = order, !.k = 1 ]
  /\ UNCHANGED << simulator, annealing, genetic, pricing, seeding >>

\* one pass of the loop for a vessel that has a compatible plant
BaselineAssign ==
  /\ milp.pc = "loop"
  /\ milp.k <= Len(milp.vessels_sorted)
  /\ LET vessel == milp.vessels[milp.vessels_sorted[milp.k]]
         vessel_port == vessel.port_id
         eta == vessel.eta_day
         predicted_delay == milp.predicted_delay_days[vessel.vessel_id]
         available_time == IF vessel_port \in DOMAIN milp.port_utilization
                           THEN milp.port_utilization[vessel_port] ELSE eta
         actual_berth_time == fcfs_berth_time(eta, predicted_delay, available_time)
         scheduled_day == CeilDay(actual_berth_time)
     IN /\ compatible_plants(vessel.cargo_grade) # << >>
        /\ milp' =
             [ milp EXCEPT
                 !.k = @ + 1,
                 !.port_utilization =
                    [ p \in DOMAIN @ \cup {vessel_port} |->
                        IF p = vessel_port THEN actual_berth_time + port_handling_days
                        ELSE @[p] ],
                 !.assignments =
                    Append(@, [ vessel_id |-> vessel.vessel_id,
                                port_id |-> vessel_port,
                                plant_id |-> target_plant(vessel.cargo_grade),
                                time_period |-> scheduled_day,
                                scheduled_day |-> 2 * scheduled_day,
                                cargo_mt |-> vessel.cargo_mt,
                                berth_time |-> actual_berth_time,
                                actual_berth_time |-> actual_berth_time,
                                planned_berth_time |-> eta,
                                predicted_delay_days |-> predicted_delay,
                                rakes_required |->
                                  rakes_required(vessel.cargo_mt,
                                                 MILP_rake_capacity_mt) ]) ]
  /\ UNCHANGED << simulator, annealing, genetic, pricing, seeding >>

\* one pass of the loop for a vessel no plant takes
BaselineSkip ==
  /\ milp.pc = "loop"
  /\ milp.k <= Len(milp.vessels_sorted)
  /\ compatible_plants(milp.vessels[milp.vessels_sorted[milp.k]].cargo_grade) = << >>
  /\ milp' = [ milp EXCEPT !.k = @ + 1 ]
  /\ UNCHANGED << simulator, annealing, genetic, pricing, seeding >>

\* the cost of the assignments and the return
BaselineReturn ==
  /\ milp.pc = "loop"
  /\ milp.k > Len(milp.vessels_sorted)
  /\ milp' =
       [ milp EXCEPT
           !.pc = "done",
           !.result = [ status |-> "Baseline_FCFS",
                        objective_value |-> _calculate_assignment_cost(milp.assignments),
                        assignments |-> milp.assignments ] ]
  /\ UNCHANGED << simulator, annealing, genetic, pricing, seeding >>

\* an optimizer constructed on a vessels table, before the call
InitBaseline ==
  /\ NoSimulator
  /\ \E eta1 \in BaselineEtaChoices, eta2 \in BaselineEtaChoices,
        port2 \in DataPortIds, grade2 \in BaselineGradeChoices,
        delay1 \in BaselineDelayChoices, delay2 \in BaselineDelayChoices :
       milp =
         [ pc |-> "idle",
           vessels |-> [ data.vessels EXCEPT ![1].eta_day = eta1,
                                             ![2].eta_day = eta2,
                                             ![2].port_id = port2,
                                             ![2].cargo_grade = grade2 ],
           predicted_delay_days |-> [ v \in DataVesselIds |->
                                        IF v = "V1" THEN delay1 ELSE delay2 ],
           vessels_sorted |-> << >>,
           k |-> 0,
           port_utilization |-> << >>,
           assignments |-> << >>,
           result |-> [ status |-> "none" ] ]
  /\ annealing = NotCalled
  /\ genetic = NotCalled
  /\ pricing = NotCalled
  /\ seeding = NotCalled

NextBaseline ==
  \/ CreateBaseline
  \/ BaselineAssign
  \/ BaselineSkip
  \/ BaselineReturn

SpecBaseline == InitBaseline /\ [][NextBaseline]_vars

----------------------------------------------------------------------------
(* C24: the first-come-first-served baseline                                       *)

\* the row of a vessel in the optimizer's table
BaselineRow(vessel_id) ==
  LET k == CHOOSE i \in DOMAIN milp.vessels : milp.vessels[i].vessel_id = vessel_id
  IN milp.vessels[k]

\* the time the port of assignment i is free again when the loop reaches it: 1.5 days
\* after the berth time of the assignment before it at that port, the vessel's ETA
\* when there is none
NextAvailable(i) ==
  LET a == milp.assignments[i]
      before == { j \in 1..(i - 1) : milp.assignments[j].port_id = a.port_id }
  IN IF before = {} THEN BaselineRow(a.vessel_id).eta_day
     ELSE milp.assignments[CHOOSE j \in before : \A q \in before : q <= j].berth_time
            + port_handling_days

\* C24: the baseline takes the vessels in ascending ETA order and gives each vessel
\* that has a compatible plant one assignment, at its port, with berth time
\* max(ETA + predicted delay, next-available time of the port); berth times are at or
\* after the ETA and 1.5 days or more apart at one port; the cost returned is, summed
\* over the assignments, handling and rail cost plus (berth time - ETA) x rate.
C24_FcfsBaseline ==
  milp.pc \in {"loop", "done"} =>
    /\ \A i, j \in DOMAIN milp.assignments :
         i < j =>
           /\ milp.assignments[i].vessel_id # milp.assignments[j].vessel_id
           /\ BaselineRow(milp.assignments[i].vessel_id).eta_day
                <= BaselineRow(milp.assignments[j].vessel_id).eta_day
           /\ milp.assignments[i].port_id = milp.assignments[j].port_id =>
                milp.assignments[j].berth_time
                  >= milp.assignments[i].berth_time + port_handling_days
    /\ \A i \in DOMAIN milp.assignments :
         LET a == milp.assignments[i]
             row == BaselineRow(a.vessel_id)
         IN /\ a.port_id = row.port_id
            /\ a.cargo_mt = row.cargo_mt
            /\ compatible_plants(row.cargo_grade) # << >>
            /\ a.berth_time
                 = Max2(row.eta_day + milp.predicted_delay_days[a.vessel_id],
                        NextAvailable(i))
            /\ a.berth_time >= row.eta_day
            /\ milp.port_utilization[a.port_id] >= a.berth_time + port_handling_days
    /\ milp.pc = "done" =>
         /\ \A k \in DOMAIN milp.vessels :
              compatible_plants(milp.vessels[k].cargo_grade) # << >> =>
                \E i \in DOMAIN milp.result.assignments :
                  milp.result.assignments[i].vessel_id = milp.vessels[k].vessel_id
         /\ milp.result.objective_value =
              SumSeq([ i \in DOMAIN milp.result.assignments |->
                         LET a == milp.result.assignments[i]
                             row == BaselineRow(a.vessel_id)
                         IN data_port_lookup(a.port_id).handling_cost_per_mt * a.cargo_mt
                            + MILP_get_rail_cost(a.port_id, a.plant_id) * a.cargo_mt
                            + ((a.berth_time - row.eta_day) * row.demurrage_rate) \div 2 ])

\* a returned baseline in which the second vessel of a port waited for the berth
C24_Witness ==
  /\ milp.pc = "done"
  /\ Len(milp.result.assignments) = 2
  /\ milp.result.assignments[1].port_id = milp.result.assignments[2].port_id
  /\ milp.result.assignments[2].berth_time
       > milp.result.assignments[2].planned_berth_time
           + milp.result.assignments[2].predicted_delay_days
  /\ milp.result.assignments[1].berth_time > milp.result.assignments[1].planned_berth_time

----------------------------------------------------------------------------
(* C21: malformed ports in the refiner                                             *)

\* whether the port is one the vessel may use and the ports table knows
UsablePort(vessel_id, port_id) ==
  /\ KnownPort(port_id)
  /\ \E k \in DOMAIN vessel_allowed_ports(vessel_id) :
       vessel_allowed_ports(vessel_id)[k] = port_id

\* C21: in a call of run_simulated_annealing, an assignment whose port is not among
\* the vessel's allowed ports or not in the ports table is costed at the vessel's
\* primary port: the lists the call keeps name usable ports only, the current cost is
\* the cost of the current list, and the call returns a status and an objective value.
C21_MalformedPortRepaired ==
  annealing.pc \in {"loop", "done"} =>
    LET current == deref(annealing.heap, annealing.current_assignments)
        best == deref(annealing.heap, annealing.best_assignments)
    IN /\ \A i \in DOMAIN current : UsablePort(current[i].vessel_id, current[i].port_id)
       /\ \A i \in DOMAIN best : UsablePort(best[i].vessel_id, best[i].port_id)
       /\ annealing.current_cost = _calculate_total_cost(current)
       /\ annealing.pc = "done" =>
            /\ annealing.result.status = "SA_Refined"
            /\ annealing.result.objective_value \in Nat
            /\ \A i \in DOMAIN annealing.result.assignments :
                 UsablePort(annealing.result.assignments[i].vessel_id,
                            annealing.result.assignments[i].port_id)

----------------------------------------------------------------------------
(* run_simulation over a long horizon, with the loop running on: the body of       *)
(* the for loop and the return are sequential code, so a step that can be taken is *)
(* taken; the calls of run_simulation are the caller's and are not forced          *)

\* the instance after construction, to be run over a horizon a day longer than the
\* horizons of Init: long enough for two vessels that queue at one port
InitLive ==
  /\ time_step_hours \in StepHoursChoices
  /\ simulation_days = MaxDays + 1
  /\ \E cap1 \in CapacityChoices, rakes1 \in RakeChoices :
       ports_df = PortsTable(cap1, rakes1)
  /\ \E eta1 \in EtaChoices, port2 \in PortIds, grade2 \in Grades :
       vessels_df = VesselsTable(eta1, port2, grade2)
  /\ \E delay1 \in DelayChoices, planned1 \in PlannedChoices :
       assignments = Plan(vessels_df, delay1, planned1)
  /\ pc = "idle"
  /\ run = 0
  /\ time_step = 0
  /\ cursor = NoCursor
  /\ current_time = 0
  /\ total_time_steps = 0
  /\ vessel_states = << >>
  /\ port_states = << >>
  /\ plant_states = << >>
  /\ rake_states = << >>
  /\ cost_components =
       [ demurrage |-> 0, port_handling |-> 0, rail_transport |-> 0,
         storage |-> 0, ocean_freight |-> 0, rerouting_penalty |-> 0 ]
  /\ rake_trip_count = 0
  /\ simulation_log = << >>
  /\ results = << >>
  /\ handled_at_reset = << >>
  /\ annealing = NotCalled
  /\ genetic = NotCalled
  /\ milp = NotCalled
  /\ pricing = NotCalled
  /\ seeding = NotCalled

\* weak fairness of every step of a call in progress.  The berth operations are
\* enabled exactly at pc = "berth" and the two steps of the rake assignment loop
\* exactly at pc = "rake_assign", and each of them leaves its control point, so
\* their weak fairness is that the control does not stay there for ever.
LoopFairness ==
  /\ WF_vars(StepCrash)
  /\ WF_vars(DayBoundaryReset)
  /\ WF_vars(NoReset)
  /\ WF_vars(ProcessVesselArrivals)
  /\ []<>(pc # "berth")
  /\ []<>(pc # "rake_assign")
  /\ WF_vars(RakeDeparture)
  /\ WF_vars(ProcessRakeUpdates)
  /\ WF_vars(LogDailyState)
  /\ WF_vars(NoDailyLog)
  /\ WF_vars(ReturnResults)

SpecLive == InitLive /\ [][Next]_vars /\ LoopFairness

----------------------------------------------------------------------------
(* C30: progress of a vessel                                                       *)

\* a call has entered its loop with steps of a day or less, and the port of the
\* vessel has a positive daily capacity
ProgressExpected(vid) ==
  /\ pc = "step_start"
  /\ time_step = 0
  /\ steps_per_day # 0
  /\ vid \in DOMAIN vessel_states
  /\ port_states[vessel_states[vid].port_id].daily_capacity > 0

Departed(vid) ==
  /\ vid \in DOMAIN vessel_states
  /\ vessel_states[vid].status = "departed"

\* C30: a vessel whose port has a positive daily capacity arrives, berths and has
\* departed before the loop of a long enough run ends; and in every berth step the
\* berthed vessel of a port discharges min(cargo left, per-step share, throughput
\* left today) and departs when it is empty, whatever rakes, inventory and plant
\* demand are.
C30_VesselProgress ==
  /\ \A vid \in {"V1", "V2"} : ProgressExpected(vid) ~> Departed(vid)
  /\ [][ pc = "berth" =>
           \A pid \in DOMAIN port_states :
             LET vid == port_states[pid].current_vessel
                 d == Min3(vessel_states[vid].cargo_remaining,
                           per_step_factor(port_states[pid]),
                           port_states[pid].throughput_remaining)
             IN vid # NoId =>
                  /\ vessel_states'[vid].cargo_remaining
                       = vessel_states[vid].cargo_remaining - d
                  /\ vessel_states'[vid].status = "departed"
                       <=> vessel_states'[vid].cargo_remaining <= 0 ]_vars

\* both vessels have departed from a port that has no rakes, the cargo of the second
\* still lying in the port's inventory
C30_Witness ==
  /\ pc = "done"
  /\ Departed("V1")
  /\ Departed("V2")
  /\ vessel_states["V2"].port_id = "P1"
  /\ port_states["P1"].rakes_available_per_day = 0
  /\ port_states["P1"].inventory # << >>
  /\ vessel_states["V1"].berth_time_step > vessel_states["V1"].eta_time_step

====
